---- MODULE Spec2Model ----
(***************************************************************************)
(* A model of dynamodb-expressions: the placeholder tables                  *)
(* (ExpressionAttributeNames / ExpressionAttributeValues), the operand      *)
(* resolver, and the condition and update expression builders.              *)
(*                                                                          *)
(* Strings are sequences of one-character strings, so that splitting,       *)
(* prefixing and the '#' / ':' escaping grammar are computed as the code    *)
(* computes them.  A JavaScript value is a tagged record:                   *)
(*   [str |-> s]  a string          [num |-> n]   a number                  *)
(*   [undef |-> TRUE]  undefined    [ref |-> i]   an object (array, Set),   *)
(*                                                compared by identity      *)
(* Math.random() is a nondeterministic choice: every operator that may draw *)
(* a suffix returns the SET of outcomes the call can produce.               *)
(***************************************************************************)
EXTENDS Integers, Sequences, FiniteSets, TLC

VARIABLES params, last, calls, objects

vars == <<params, last, calls, objects>>

(***************************************************************************)
(* Bounds                                                                   *)
(***************************************************************************)
\* number of distinct suffix values Math.random() is allowed to produce
MaxRandom == 2
\* number of builder calls, update and condition mixed, that share one params
MaxCalls == 2
\* number of condition builder calls that share one params object
MaxCondCalls == 1
\* number of update builder calls that share one params object
MaxUpdCalls == 1
\* number of addOperand calls made on one builder
MaxOps == 3
\* number of addOperand calls with escaped strings that share one params object
MaxEscapeOps == 1
\* the integers a condition is evaluated on are 0..MaxEvalInt
MaxEvalInt == 3
\* number of CompositeCondition objects created in one run
MaxObjects == 2
\* number of addName calls on one params object
MaxPathCalls == 2
\* number of calls rendering a boolean combination into one params object
MaxLogicCalls == 1

\* Math.floor(Math.random() * 1000)
RandomRange == 1000

(***************************************************************************)
(* Strings                                                                  *)
(***************************************************************************)
Str(s) == [str |-> s]
Num(n) == [num |-> n]
Undefined == [undef |-> TRUE]
Ref(i) == [ref |-> i]

IsString(v) == "str" \in DOMAIN v
IsUndefined(v) == "undef" \in DOMAIN v

DigitChars == <<"0", "1", "2", "3", "4", "5", "6", "7", "8", "9">>

RECURSIVE Digits(_)
\* the decimal text of a natural number, as `${n}` gives it
Digits(n) ==
  IF n < 10 THEN <<DigitChars[n + 1]>>
  ELSE Digits(n \div 10) \o <<DigitChars[(n % 10) + 1]>>

\* String(operand)
JsString(v) ==
  IF IsString(v) THEN v.str
  ELSE IF "num" \in DOMAIN v THEN Digits(v.num)
  ELSE IF IsUndefined(v) THEN <<"u", "n", "d", "e", "f", "i", "n", "e", "d">>
  ELSE <<"[", "o", "b", "j", "e", "c", "t", "]">>

Includes(s, c) == \E i \in 1..Len(s) : s[i] = c

IndexOf(s, c) == CHOOSE i \in 1..Len(s) : s[i] = c /\ \A j \in 1..(i - 1) : s[j] # c

RECURSIVE Split(_, _)
\* String.prototype.split on a one-character separator
Split(s, sep) ==
  IF ~Includes(s, sep) THEN <<s>>
  ELSE LET i == IndexOf(s, sep)
       IN <<SubSeq(s, 1, i - 1)>> \o Split(SubSeq(s, i + 1, Len(s)), sep)

RECURSIVE Join(_, _)
\* Array.prototype.join
Join(ss, sep) ==
  IF ss = <<>> THEN <<>>
  ELSE IF Len(ss) = 1 THEN ss[1]
  ELSE ss[1] \o sep \o Join(Tail(ss), sep)

\* a match that skips a run of leading '#' and starts at the last one of the run
HashMatch_LastHash(s) ==
  LET starts == {i \in 1..(Len(s) - 1) :
                   s[i] = "#" /\ s[i + 1] # ")" /\ s[i + 1] # "#"}
  IN IF starts = {} THEN <<0, 0>>
     ELSE LET i == CHOOSE k \in starts : \A m \in starts : k <= m
              j == CHOOSE k \in (i + 1)..Len(s) :
                     /\ \A m \in (i + 1)..k : s[m] # ")"
                     /\ (k = Len(s) \/ s[k + 1] = ")")
          IN <<i, j>>

\* the match of /#[^)]+/ in s: <<first, last>> or <<0, 0>> when there is none
HashMatch(s) ==
  LET starts == {i \in 1..(Len(s) - 1) : s[i] = "#" /\ s[i + 1] # ")"}
  IN IF starts = {} THEN <<0, 0>>
     ELSE LET i == CHOOSE k \in starts : \A m \in starts : k <= m
              j == CHOOSE k \in (i + 1)..Len(s) :
                     /\ \A m \in (i + 1)..k : s[m] # ")"
                     /\ (k = Len(s) \/ s[k + 1] = ")")
          IN <<i, j>>

(***************************************************************************)
(* Symbol table                                                             *)
(***************************************************************************)
EmptyTable == [k \in {} |-> Undefined]

\* values[uniqueKey] !== value
StrictNeq(x, y) == x # y

\* addUniqueMapping without the collision test: the key is always taken
Collides_Never(values, uniqueKey, value) == FALSE

\* addUniqueMapping retrying whenever the key is in use, also for the same value
Collides_WheneverBound(values, uniqueKey, value) == uniqueKey \in DOMAIN values

\* the loop condition of addUniqueMapping
Collides(values, uniqueKey, value) ==
  uniqueKey \in DOMAIN values /\ StrictNeq(values[uniqueKey], value)

Suffixes == 0..((IF MaxRandom < RandomRange THEN MaxRandom ELSE RandomRange) - 1)

\* the keys addUniqueMapping can return: the key itself unless it collides,
\* else any suffixed key the retry loop can stop at (none: the loop never ends)
UniqueKeys(values, key, value) ==
  IF ~Collides(values, key, value) THEN {key}
  ELSE {k \in {key \o <<"_">> \o Digits(n) : n \in Suffixes} :
          ~Collides(values, k, value)}

\* values[uniqueKey] = value
Bind(values, uniqueKey, value) ==
  [k \in DOMAIN values \cup {uniqueKey} |->
     IF k = uniqueKey THEN value ELSE values[k]]

(***************************************************************************)
(* ExpressionBuilder.  A builder b holds the shared params object (the two  *)
(* tables, each absent until first used), the kind of the concrete builder  *)
(* class ("cond" or "upd") and a log of the bindings it made:               *)
(*   [t |-> "name" or "value", cand |-> candidate placeholder,              *)
(*    raw |-> the bound value, ph |-> the placeholder returned,             *)
(*    path |-> the path addName was given, idx |-> the segment bound].      *)
(* Every operator below returns the set of [s |-> text, b |-> builder]      *)
(* the call can end in.                                                     *)
(***************************************************************************)
\* a constructor that creates both tables at once
NewBuilder_EagerTables(p, kind) ==
  [names |-> p.names, values |-> p.values,
   hasNames |-> TRUE, hasValues |-> TRUE,
   kind |-> kind, log |-> <<>>]

NewBuilder(p, kind) ==
  [names |-> p.names, values |-> p.values,
   hasNames |-> p.hasNames, hasValues |-> p.hasValues,
   kind |-> kind, log |-> <<>>]

RECURSIVE AddNameParts(_, _, _, _)
\* the map over path.split('.') in addName: the path, its parts still to bind,
\* the prefix accumulated so far, the builder; s is the sequence of rendered parts
AddNameParts(path, parts, prefix, b) ==
  IF parts = <<>> THEN {[s |-> <<>>, b |-> b]}
  ELSE
    LET part == Head(parts)
        pieces == Split(part, "[")
        key == pieces[1]
        elements == Tail(pieces)
        cand == <<"#">> \o prefix \o key
    IN UNION {
         LET b1 == [b EXCEPT !.names = Bind(b.names, k, Str(key)),
                             !.log = Append(b.log,
                                      [t |-> "name", cand |-> cand,
                                       raw |-> Str(key), ph |-> k, path |-> path,
                                       idx |-> Len(Split(path, ".")) - Len(parts) + 1])]
             escaped == Join(<<k>> \o elements, <<"[">>)
         IN {[s |-> <<escaped>> \o r.s, b |-> r.b] :
               r \in AddNameParts(path, Tail(parts), prefix \o part \o <<"_">>, b1)}
         : k \in UniqueKeys(b.names, cand, Str(key))}

\* ExpressionBuilder.addName
AddName(path, prefix, b) ==
  {[s |-> Join(r.s, <<".">>), b |-> r.b] :
     r \in AddNameParts(path, Split(path, "."), prefix,
                       [b EXCEPT !.hasNames = TRUE])}

\* the prefix the concrete builder's addValue override puts in front
ValuePrefix(b, prefix) ==
  IF b.kind = "cond" THEN <<"c", "o", "n", "d", "_">> \o prefix
  ELSE <<"v", "a", "l", "_">> \o prefix

\* addValue of the concrete builder, calling ExpressionBuilder.addValue
AddValue(value, prefix, b) ==
  LET cand == <<":">> \o ValuePrefix(b, prefix)
  IN {[s |-> k,
       b |-> [b EXCEPT !.hasValues = TRUE,
                       !.values = Bind(b.values, k, value),
                       !.log = Append(b.log, [t |-> "value", cand |-> cand,
                                              raw |-> value, ph |-> k,
                                              path |-> <<>>, idx |-> 0])]] :
        k \in UniqueKeys(b.values, cand, value)}

\* addOperand without the ':' escape: the string goes by its default role
AddOperand_NoLiteralEscape(operand, defaultType, prefix, b) ==
  IF defaultType = "name" THEN AddName(JsString(operand), prefix, b)
  ELSE AddValue(operand, prefix, b)

\* ExpressionBuilder.addOperand
AddOperand(operand, defaultType, prefix, b) ==
  IF IsString(operand) /\ operand.str # <<>> /\ operand.str[1] = ":"
  THEN AddValue(Str(Tail(operand.str)), prefix, b)
  ELSE IF IsString(operand) /\ Includes(operand.str, "#")
  THEN LET s == operand.str
           m == HashMatch(s)
       IN IF m[1] = 0 THEN {[s |-> s, b |-> b]}
          ELSE {[s |-> SubSeq(s, 1, m[1] - 1) \o r.s \o SubSeq(s, m[2] + 1, Len(s)),
                 b |-> r.b] :
                  r \in AddName(SubSeq(s, m[1] + 1, m[2]), prefix, b)}
  ELSE IF defaultType = "name" THEN AddName(JsString(operand), prefix, b)
  ELSE AddValue(operand, prefix, b)

(***************************************************************************)
(* Condition: a condition on one attribute.                                 *)
(*   [cond |-> "cmp", operator, value]      eq, neq, lt, le, gt, ge         *)
(*   [cond |-> "between", operands]         between(min, max)               *)
(*   [cond |-> "in", operands]              in([...])                       *)
(*   [cond |-> "func", func, args]          attribute_exists, ...           *)
(*   [cond |-> "not", operand]              not(c)                          *)
(*   [cond |-> "and" / "or", operands]      and(...), or(...)               *)
(***************************************************************************)
Comparator(operator, value) == [cond |-> "cmp", operator |-> operator, value |-> value]
Eq(value) == Comparator(<<"=">>, value)
Neq(value) == Comparator(<<"<", ">">>, value)
Gt(value) == Comparator(<<">">>, value)
Ge(value) == Comparator(<<">", "=">>, value)
Lt(value) == Comparator(<<"<">>, value)
Le(value) == Comparator(<<"<", "=">>, value)
Between(minValue, maxValue) == [cond |-> "between", operands |-> <<minValue, maxValue>>]
In(operands) == [cond |-> "in", operands |-> operands]
Func(func, args) == [cond |-> "func", func |-> func, args |-> args]
AttributeExists ==
  Func(<<"a", "t", "t", "r", "i", "b", "u", "t", "e", "_", "e", "x", "i", "s", "t", "s">>, <<>>)
AttributeNotExists ==
  Func(<<"a", "t", "t", "r", "i", "b", "u", "t", "e", "_", "n", "o", "t", "_",
         "e", "x", "i", "s", "t", "s">>, <<>>)
BeginsWith(substr) ==
  Func(<<"b", "e", "g", "i", "n", "s", "_", "w", "i", "t", "h">>, <<substr>>)

IsCondition(v) == "cond" \in DOMAIN v

\* Condition.from wrapping a literal in an inequality
ConditionFrom_Neq(c) == IF IsCondition(c) THEN c ELSE Neq(c)

\* Condition.from: a literal is an equality condition
ConditionFrom(c) == IF IsCondition(c) THEN c ELSE Eq(c)

Not(v) == [cond |-> "not", operand |-> ConditionFrom(v)]
And(operands) ==
  [cond |-> "and", operands |-> [i \in DOMAIN operands |-> ConditionFrom(operands[i])]]
Or(operands) ==
  [cond |-> "or", operands |-> [i \in DOMAIN operands |-> ConditionFrom(operands[i])]]

\* the number a comparison reads from a value; comparisons of anything else
\* than two numbers are not modelled and give false
BothNumbers(v, w) == "num" \in DOMAIN v /\ "num" \in DOMAIN w

\* the evaluate function of Condition.ge, with > in place of >=
EvaluateComparator_GeAsGt(operator, value, v) ==
  CASE operator = <<"=">> -> v = value
    [] operator = <<"<", ">">> -> v # value
    [] operator = <<">">> -> BothNumbers(v, value) /\ v.num > value.num
    [] operator = <<">", "=">> -> BothNumbers(v, value) /\ v.num > value.num
    [] operator = <<"<">> -> BothNumbers(v, value) /\ v.num < value.num
    [] operator = <<"<", "=">> -> BothNumbers(v, value) /\ v.num <= value.num

\* the evaluate functions eq .. neq hand to Condition.comparator
EvaluateComparator(operator, value, v) ==
  CASE operator = <<"=">> -> v = value
    [] operator = <<"<", ">">> -> v # value
    [] operator = <<">">> -> BothNumbers(v, value) /\ v.num > value.num
    [] operator = <<">", "=">> -> BothNumbers(v, value) /\ v.num >= value.num
    [] operator = <<"<">> -> BothNumbers(v, value) /\ v.num < value.num
    [] operator = <<"<", "=">> -> BothNumbers(v, value) /\ v.num <= value.num

RECURSIVE Evaluate(_, _)
\* condition.evaluate(v)
Evaluate(c, v) ==
  CASE c.cond = "cmp" -> EvaluateComparator(c.operator, c.value, v)
    [] c.cond = "between" ->
         /\ BothNumbers(v, c.operands[1]) /\ v.num >= c.operands[1].num
         /\ BothNumbers(v, c.operands[2]) /\ v.num <= c.operands[2].num
    [] c.cond = "in" -> \E i \in DOMAIN c.operands : c.operands[i] = v
    [] c.cond = "func" ->
         IF c = AttributeExists THEN ~IsUndefined(v)
         ELSE IF c = AttributeNotExists THEN IsUndefined(v)
         ELSE IsString(v) /\ IsString(c.args[1])
              /\ Len(v.str) >= Len(c.args[1].str)
              /\ SubSeq(v.str, 1, Len(c.args[1].str)) = c.args[1].str
    [] c.cond = "not" -> ~Evaluate(c.operand, v)
    [] c.cond = "and" -> \A i \in DOMAIN c.operands : Evaluate(c.operands[i], v)
    [] c.cond = "or" -> \E i \in DOMAIN c.operands : Evaluate(c.operands[i], v)

\* withDefaultValue keeping the condition whatever the default evaluates to
WithDefaultValue_Never(c, defaultValue) == c

\* condition.withDefaultValue(defaultValue)
WithDefaultValue(c, defaultValue) ==
  IF ~IsUndefined(defaultValue) /\ Evaluate(c, defaultValue)
  THEN Or(<<c, AttributeNotExists>>)
  ELSE c

RECURSIVE AddOperands(_, _, _, _)
\* operands.map((operand, i) => builder.addOperand(operand, 'value', `${prefix}${i}`)),
\* from index i on; s is the sequence of the rendered operands
AddOperands(operands, i, prefix, b) ==
  IF operands = <<>> THEN {[s |-> <<>>, b |-> b]}
  ELSE UNION {
         {[s |-> <<r.s>> \o rest.s, b |-> rest.b] :
            rest \in AddOperands(Tail(operands), i + 1, prefix, r.b)}
         : r \in AddOperand(Head(operands), "value", prefix \o Digits(i), b)}

RECURSIVE ConditionBuild(_, _, _)
RECURSIVE ConditionBuildAll(_, _, _)

\* conditions.map(c => c.build(key, builder).expression)
ConditionBuildAll(conditions, key, b) ==
  IF conditions = <<>> THEN {[s |-> <<>>, b |-> b]}
  ELSE UNION {
         {[s |-> <<r.s>> \o rest.s, b |-> rest.b] :
            rest \in ConditionBuildAll(Tail(conditions), key, r.b)}
         : r \in ConditionBuild(Head(conditions), key, b)}

\* condition.build(key, builder).expression
ConditionBuild(c, key, b) ==
  CASE c.cond = "cmp" ->
         UNION {
           {[s |-> n.s \o <<" ">> \o c.operator \o <<" ">> \o v.s, b |-> v.b] :
              v \in AddOperand(c.value, "value", <<>>, n.b)}
           : n \in AddOperand(Str(key), "name", <<>>, b)}
    [] c.cond = "between" ->
         UNION {
           {[s |-> n.s \o <<" ", "B", "E", "T", "W", "E", "E", "N", " ">>
                       \o Join(v.s, <<" ", "A", "N", "D", " ">>),
             b |-> v.b] :
              v \in AddOperands(c.operands, 0,
                                <<"b", "e", "t", "w", "e", "e", "n">>, n.b)}
           : n \in AddOperand(Str(key), "name", <<>>, b)}
    [] c.cond = "in" ->
         UNION {
           {[s |-> n.s \o <<" ", "I", "N", " ", "(">> \o Join(v.s, <<",", " ">>)
                       \o <<")">>,
             b |-> v.b] :
              v \in AddOperands(c.operands, 0, <<"i", "n">>, n.b)}
           : n \in AddOperand(Str(key), "name", <<>>, b)}
    [] c.cond = "func" ->
         UNION {
           {[s |-> c.func \o <<"(">> \o Join(<<n.s>> \o v.s, <<",", " ">>) \o <<")">>,
             b |-> v.b] :
              v \in AddOperands(c.args, 0, c.func \o <<"_", "a", "r", "g">>, n.b)}
           : n \in AddOperand(Str(key), "name", <<>>, b)}
    [] c.cond = "not" ->
         {[s |-> <<"N", "O", "T", " ", "(">> \o r.s \o <<")">>, b |-> r.b] :
            r \in ConditionBuild(c.operand, key, b)}
    [] c.cond = "and" ->
         {[s |-> <<"(">> \o Join(r.s, <<" ", "A", "N", "D", " ">>) \o <<")">>,
           b |-> r.b] :
            r \in ConditionBuildAll(c.operands, key, b)}
    [] c.cond = "or" ->
         {[s |-> <<"(">> \o Join(r.s, <<" ", "O", "R", " ">>) \o <<")">>,
           b |-> r.b] :
            r \in ConditionBuildAll(c.operands, key, b)}

(***************************************************************************)
(* ConditionSet: a flat mapping [flat |-> <<[key, value], ...>>] in the     *)
(* mapping's iteration order, or a CompositeCondition                       *)
(* [operator |-> "AND" / "OR", operands |-> <<ConditionSet, ...>>].         *)
(***************************************************************************)
Entry(key, value) == [key |-> key, value |-> value]
Flat(entries) == [flat |-> entries]
CompositeCondition(operator, operands) == [operator |-> operator, operands |-> operands]
IsComposite(c) == "operator" \in DOMAIN c

\* ` ${conditions.operator} `
OperatorText(operator) ==
  IF operator = "AND" THEN <<" ", "A", "N", "D", " ">> ELSE <<" ", "O", "R", " ">>

\* expr || undefined
OrUndefined(expr) == IF expr = <<>> THEN Undefined ELSE Str(expr)

\* expression => expression, the filter's test
IsTruthy(expression) == ~IsUndefined(expression) /\ expression # Str(<<>>)

RECURSIVE Truthy(_)
\* .filter(expression => expression), and the strings' texts
Truthy(expressions) ==
  IF expressions = <<>> THEN <<>>
  ELSE (IF IsTruthy(Head(expressions)) THEN <<Head(expressions).str>> ELSE <<>>)
         \o Truthy(Tail(expressions))

\* the flat branch leaving every entry in, undefined values too
Skipped_Never(value) == FALSE

\* value !== undefined fails: the flat branch skips the entry
Skipped(value) == IsUndefined(value)

\* the composite branch parenthesising whatever survived, a single fragment too
JoinOperands_AlwaysWrapped(expressions, operator) ==
  LET expr == Join(expressions, OperatorText(operator))
  IN IF Len(expressions) > 0 THEN <<"(">> \o expr \o <<")">> ELSE expr

\* the composite branch without the parentheses
JoinOperands_Unwrapped(expressions, operator) ==
  Join(expressions, OperatorText(operator))

\* the composite branch: join with the operator, parenthesise more than one
JoinOperands(expressions, operator) ==
  LET expr == Join(expressions, OperatorText(operator))
  IN IF Len(expressions) > 1 THEN <<"(">> \o expr \o <<")">> ELSE expr

RECURSIVE FlatBuild(_, _, _)
\* the loop of the flat branch of ConditionExpressionBuilder.build: the entries
\* still to visit, this.conditions so far, the builder
FlatBuild(entries, conditions, b) ==
  IF entries = <<>> THEN {[s |-> conditions, b |-> b]}
  ELSE LET e == Head(entries)
       IN IF Skipped(e.value) THEN FlatBuild(Tail(entries), conditions, b)
          ELSE UNION {
                 FlatBuild(Tail(entries), Append(conditions, r.s), r.b)
                 : r \in ConditionBuild(ConditionFrom(e.value), e.key, b)}

RECURSIVE ConditionSetBuild(_, _)
RECURSIVE OperandsBuild(_, _)

\* conditions.operands.map(operand => new ConditionExpressionBuilder(this.params)
\*   .build(operand)): the value each operand's build returned
OperandsBuild(operands, b) ==
  IF operands = <<>> THEN {[s |-> <<>>, b |-> b]}
  ELSE UNION {
         {[s |-> <<r.ret>> \o rest.s, b |-> rest.b] :
            rest \in OperandsBuild(Tail(operands), r.b)}
         : r \in ConditionSetBuild(Head(operands), b)}

\* ConditionExpressionBuilder.build on a new builder: ret is the returned
\* expression, conditions is the builder's this.conditions afterwards
ConditionSetBuild(conditions, b) ==
  IF IsComposite(conditions)
  THEN {[ret |-> OrUndefined(JoinOperands(Truthy(r.s), conditions.operator)),
         conditions |-> <<>>, fragments |-> r.s, b |-> r.b] :
          r \in OperandsBuild(conditions.operands, b)}
  ELSE {[ret |-> OrUndefined(Join(r.s, <<" ", "A", "N", "D", " ">>)),
         conditions |-> r.s, fragments |-> <<>>, b |-> r.b] :
          r \in FlatBuild(conditions.flat, <<>>, b)}

(***************************************************************************)
(* SetValue and UpdateAction                                                *)
(*   [setv |-> "value", value]                 SetValue.value               *)
(*   [setv |-> "add" / "subtract" / "append", operands]                     *)
(*   [setv |-> "ifNotExists", p, value]                                     *)
(*   [action |-> "SET", value] / [action |-> "REMOVE"] /                    *)
(*   [action |-> "ADD", value] / [action |-> "DELETE", value]               *)
(***************************************************************************)
SetValueValue(value) == [setv |-> "value", value |-> value]
SetValueAdd(n1, n2) == [setv |-> "add", operands |-> <<n1, n2>>]
SetValueSubtract(n1, n2) == [setv |-> "subtract", operands |-> <<n1, n2>>]
SetValueAppend(list1, list2) == [setv |-> "append", operands |-> <<list1, list2>>]
SetValueIfNotExists(p, value) == [setv |-> "ifNotExists", p |-> p, value |-> value]
IsSetValue(v) == "setv" \in DOMAIN v

UpdateSet(value) == [action |-> "SET", value |-> value]
UpdateRemove == [action |-> "REMOVE"]
UpdateAdd(value) == [action |-> "ADD", value |-> value]
UpdateDelete(value) == [action |-> "DELETE", value |-> value]
IsUpdateAction(v) == "action" \in DOMAIN v

\* UpdateAction.from: a literal is a SET action
UpdateActionFrom(value) == IF IsUpdateAction(value) THEN value ELSE UpdateSet(value)

\* the text of an ActionType
ActionTypeText(type) ==
  CASE type = "SET" -> <<"S", "E", "T">>
    [] type = "REMOVE" -> <<"R", "E", "M", "O", "V", "E">>
    [] type = "ADD" -> <<"A", "D", "D">>
    [] type = "DELETE" -> <<"D", "E", "L", "E", "T", "E">>

RECURSIVE SetValueBuild(_, _, _)
RECURSIVE BuildSetOperands(_, _, _, _, _)

\* buildSetOperand taking a nested SetValue for a literal
BuildSetOperand_NoNesting(key, value, b, prefix) ==
  IF IsString(value) THEN AddOperand(value, "name", prefix, b)
  ELSE AddOperand(value, "value", prefix, b)

\* buildSetOperand
BuildSetOperand(key, value, b, prefix) ==
  IF IsSetValue(value) THEN SetValueBuild(value, key, b)
  ELSE IF IsString(value) THEN AddOperand(value, "name", prefix, b)
  ELSE AddOperand(value, "value", prefix, b)

\* [n1, n2].map((n, i) => buildSetOperand(key, n, builder, `${prefix}${i}`))
BuildSetOperands(key, operands, i, b, prefix) ==
  IF operands = <<>> THEN {[s |-> <<>>, b |-> b]}
  ELSE UNION {
         {[s |-> <<r.s>> \o rest.s, b |-> rest.b] :
            rest \in BuildSetOperands(key, Tail(operands), i + 1, r.b, prefix)}
         : r \in BuildSetOperand(key, Head(operands), b, prefix \o Digits(i))}

\* setValue.build(key, builder)
SetValueBuild(v, key, b) ==
  CASE v.setv = "value" -> AddOperand(v.value, "value", <<"s", "e", "t">>, b)
    [] v.setv = "add" ->
         {[s |-> Join(r.s, <<" ", "+", " ">>), b |-> r.b] :
            r \in BuildSetOperands(key, v.operands, 0, b, <<"a", "d", "d">>)}
    [] v.setv = "subtract" ->
         {[s |-> Join(r.s, <<" ", "-", " ">>), b |-> r.b] :
            r \in BuildSetOperands(key, v.operands, 0, b, <<"s", "u", "b">>)}
    [] v.setv = "append" ->
         {[s |-> <<"l", "i", "s", "t", "_", "a", "p", "p", "e", "n", "d", "(">>
                   \o Join(r.s, <<",", " ">>) \o <<")">>,
           b |-> r.b] :
            r \in BuildSetOperands(key, v.operands, 0, b,
                                   <<"a", "p", "p", "e", "n", "d">>)}
    [] v.setv = "ifNotExists" ->
         UNION {
           {[s |-> <<"i", "f", "_", "n", "o", "t", "_", "e", "x", "i", "s", "t", "s", "(">>
                     \o Join(<<n.s, d.s>>, <<",", " ">>) \o <<")">>,
             b |-> d.b] :
              d \in AddOperand(v.value, "value",
                               <<"i", "f", "n", "o", "t", "e", "x", "i", "s", "t", "s">>,
                               n.b)}
           : n \in AddOperand(Str(v.p), "name", <<>>, b)}

\* action.build(key, builder): the outcomes [type, s |-> expression, b]
UpdateActionBuild(a, key, b) ==
  CASE a.action = "SET" ->
         LET v == IF IsSetValue(a.value) THEN a.value ELSE SetValueValue(a.value)
         IN UNION {
              {[type |-> "SET", s |-> n.s \o <<" ", "=", " ">> \o r.s, b |-> r.b] :
                 r \in SetValueBuild(v, key, n.b)}
              : n \in AddOperand(Str(key), "name", <<>>, b)}
    [] a.action = "REMOVE" ->
         {[type |-> "REMOVE", s |-> n.s, b |-> n.b] :
            n \in AddOperand(Str(key), "name", <<>>, b)}
    [] a.action = "ADD" ->
         UNION {
           {[type |-> "ADD", s |-> n.s \o <<" ">> \o r.s, b |-> r.b] :
              r \in AddOperand(a.value, "value", <<"a", "d", "d">>, n.b)}
           : n \in AddOperand(Str(key), "name", <<>>, b)}
    [] a.action = "DELETE" ->
         UNION {
           {[type |-> "DELETE", s |-> n.s \o <<" ">> \o r.s, b |-> r.b] :
              r \in AddOperand(a.value, "value", <<"d", "e", "l", "e", "t", "e">>, n.b)}
           : n \in AddOperand(Str(key), "name", <<>>, b)}

(***************************************************************************)
(* UpdateExpressionBuilder.  this.actions, a Map in insertion order, is a   *)
(* sequence of [type, items].                                               *)
(***************************************************************************)
\* addAction opening a new bucket for every action, grouping nothing
AddAction_Ungrouped(actions, type, action) ==
  Append(actions, [type |-> type, items |-> <<action>>])

\* addAction putting the bucket of a kind seen for the first time in front
AddAction_NewestFirst(actions, type, action) ==
  IF \E i \in DOMAIN actions : actions[i].type = type
  THEN [i \in DOMAIN actions |->
          IF actions[i].type = type
          THEN [actions[i] EXCEPT !.items = Append(@, action)]
          ELSE actions[i]]
  ELSE <<[type |-> type, items |-> <<action>>]>> \o actions

\* UpdateExpressionBuilder.addAction
AddAction(actions, type, action) ==
  IF \E i \in DOMAIN actions : actions[i].type = type
  THEN [i \in DOMAIN actions |->
          IF actions[i].type = type
          THEN [actions[i] EXCEPT !.items = Append(@, action)]
          ELSE actions[i]]
  ELSE Append(actions, [type |-> type, items |-> <<action>>])

RECURSIVE UpdateLoop(_, _, _, _)
\* the loop of UpdateExpressionBuilder.build over Object.entries(attributes):
\* the entries still to visit, this.actions so far, the {type, expression}
\* the actions built so far returned, the builder
UpdateLoop(entries, actions, built, b) ==
  IF entries = <<>> THEN {[actions |-> actions, built |-> built, b |-> b]}
  ELSE LET e == Head(entries)
       IN UNION {
            UpdateLoop(Tail(entries), AddAction(actions, r.type, r.s),
                       Append(built, [type |-> r.type, expression |-> r.s]), r.b)
            : r \in UpdateActionBuild(UpdateActionFrom(e.value), e.key, b)}

\* [...this.actions.entries()].map(([type, actions]) =>
\*   `${type} ${actions.join(', ')}`)
ClauseTexts(actions) ==
  [i \in DOMAIN actions |->
     ActionTypeText(actions[i].type) \o <<" ">> \o Join(actions[i].items, <<",", " ">>)]

\* UpdateExpressionBuilder.build on a new builder
UpdateBuild(attributes, b) ==
  {[ret |-> OrUndefined(Join(ClauseTexts(r.actions), <<" ">>)),
    actions |-> r.actions, built |-> r.built, b |-> r.b] :
     r \in UpdateLoop(attributes, <<>>, <<>>, b)}

(***************************************************************************)
(* The caller's params object and the record of the last call               *)
(***************************************************************************)
\* a params object: the two tables (absent until created) and the three
\* expression fields the Params-style builders assign
NewParams(names, hasNames, values, hasValues) ==
  [names |-> names, hasNames |-> hasNames,
   values |-> values, hasValues |-> hasValues,
   UpdateExpression |-> Undefined,
   ConditionExpression |-> Undefined,
   KeyConditionExpression |-> Undefined]

\* {} as the caller passes it when it has no tables yet
FreshParams == NewParams(EmptyTable, FALSE, EmptyTable, FALSE)

\* a params object whose tables the caller filled before the first call
PrefilledParams ==
  NewParams((<<"#", "a", "_", "b">> :> Str(<<"x">>)), TRUE,
            (<<":", "v", "a", "l", "_">> :> Num(7)) @@
            (<<":", "c", "o", "n", "d", "_">> :> Num(7)), TRUE)

\* tables that already hold the bindings a first literal and key 'a' ask for
PrefilledSame ==
  NewParams((<<"#", "a">> :> Str(<<"a">>)), TRUE,
            (<<":", "v", "a", "l", "_", "s", "e", "t">> :> Num(1)) @@
            (<<":", "c", "o", "n", "d", "_">> :> Num(1)), TRUE)

\* a name table whose '#a' the caller bound to another attribute
PrefilledOther ==
  NewParams((<<"#", "a">> :> Str(<<"z">>)), TRUE, EmptyTable, FALSE)

InitialParams == {FreshParams, PrefilledParams, PrefilledSame, PrefilledOther}

\* a write-back that loses the name table
WithTables_ValuesOnly(p, b) ==
  [p EXCEPT !.values = b.values, !.hasValues = b.hasValues]

\* the tables of builder b written back into the params object p
WithTables(p, b) ==
  [p EXCEPT !.names = b.names, !.hasNames = b.hasNames,
            !.values = b.values, !.hasValues = b.hasValues]

NoCall ==
  [call |-> "none", input |-> Undefined, pre |-> FreshParams,
   ret |-> Undefined, thrown |-> FALSE,
   conditions |-> <<>>, fragments |-> <<>>, actions |-> <<>>, built |-> <<>>,
   log |-> <<>>, hist |-> <<>>]

(***************************************************************************)
(* Specification SpecTable: addOperand calls on builders sharing one params *)
(***************************************************************************)
OperandOp(operand, defaultType, prefix, kind) ==
  [operand |-> operand, defaultType |-> defaultType, prefix |-> prefix, kind |-> kind]

\* the addOperand calls tried: paths, '#' references and literals, with the
\* prefixes the condition and update actions pass
OperandOps ==
  { OperandOp(Str(<<"a", ".", "b">>), "name", <<>>, "upd"),
    OperandOp(Str(<<"a", "_", "b">>), "name", <<>>, "upd"),
    OperandOp(Str(<<"b">>), "name", <<"a", "_">>, "cond"),
    OperandOp(Str(<<"#", "a", "_", "b">>), "value", <<>>, "cond"),
    OperandOp(Str(<<"a">>), "name", <<>>, "cond"),
    OperandOp(Num(1), "value", <<>>, "cond"),
    OperandOp(Num(2), "value", <<>>, "cond"),
    OperandOp(Num(1), "value", <<"a", "d", "d">>, "upd"),
    OperandOp(Ref(1), "value", <<"a", "d", "d">>, "upd"),
    OperandOp(Ref(2), "value", <<"a", "d", "d">>, "upd"),
    OperandOp(Str(<<":", "1">>), "value", <<>>, "cond"),
    OperandOp(Str(<<"x">>), "value", <<>>, "upd") }

InitTable ==
  /\ params \in InitialParams
  /\ last = [NoCall EXCEPT !.pre = params]
  /\ calls = 0
  /\ objects = <<>>

\* builder.addOperand(operand, defaultType, prefix) on a builder of params
AddOperandOp ==
  /\ calls < MaxOps
  /\ \E op \in OperandOps :
       \E r \in AddOperand(op.operand, op.defaultType, op.prefix,
                           NewBuilder(params, op.kind)) :
         /\ params' = WithTables(params, r.b)
         /\ last' = [call |-> "addOperand", input |-> op, pre |-> params,
                     ret |-> Str(r.s), thrown |-> FALSE,
                     conditions |-> <<>>, fragments |-> <<>>,
                     actions |-> <<>>, built |-> <<>>,
                     log |-> r.b.log, hist |-> last.hist \o r.b.log]
         /\ calls' = calls + 1
  /\ UNCHANGED objects

NextTable == AddOperandOp

SpecTable == InitTable /\ [][NextTable]_vars

(***************************************************************************)
(* Specification SpecEscape: addOperand on strings that carry the ':' and   *)
(* '#' escapes, under both default roles                                    *)
(***************************************************************************)
\* the operands tried: escaped literals, '#' references, and a plain string
EscapeOperands ==
  { <<":", ":", "b">>,
    <<":", "#", "b">>,
    <<":", "t", "h", "e", "_", "v", "a", "l", "u", "e">>,
    <<":">>,
    <<"#", "#", "f", "o", "o">>,
    <<"#", ":", "b">>,
    <<"#", "b">>,
    <<"s", "i", "z", "e", "(", "#", "b", ")">>,
    <<"s", "i", "z", "e", "(", "#", ")">>,
    <<"#">>,
    <<"b", "#">>,
    <<"b">> }

\* the prefixes the conditions and update actions pass
EscapePrefixes == {<<>>, <<"s", "e", "t">>}

EscapeOps ==
  {OperandOp(Str(s), defaultType, prefix, kind) :
     s \in EscapeOperands, defaultType \in {"name", "value"},
     prefix \in EscapePrefixes, kind \in {"cond", "upd"}}

\* builder.addOperand(operand, defaultType, prefix) on a builder of params
AddOperandEscaped ==
  /\ calls < MaxEscapeOps
  /\ \E op \in EscapeOps :
       \E r \in AddOperand(op.operand, op.defaultType, op.prefix,
                           NewBuilder(params, op.kind)) :
         /\ params' = WithTables(params, r.b)
         /\ last' = [call |-> "addOperand", input |-> op, pre |-> params,
                     ret |-> Str(r.s), thrown |-> FALSE,
                     conditions |-> <<>>, fragments |-> <<>>,
                     actions |-> <<>>, built |-> <<>>,
                     log |-> r.b.log, hist |-> <<>>]
         /\ calls' = calls + 1
  /\ UNCHANGED objects

NextEscape == AddOperandEscaped

SpecEscape == InitTable /\ [][NextEscape]_vars

(***************************************************************************)
(* Specification SpecEvaluate: condition.evaluate(v) over bounded integers  *)
(***************************************************************************)
EvalInts == 0..MaxEvalInt

EvalValues == {Num(n) : n \in EvalInts}

\* eq, neq, lt, le, gt, ge, between and in over the integers
EvalBaseConditions ==
  {f : f \in UNION {{Eq(x), Neq(x), Lt(x), Le(x), Gt(x), Ge(x)} : x \in EvalValues}}
    \cup {Between(lo, hi) : lo \in EvalValues, hi \in EvalValues}
    \cup {In(<<>>), In(<<Num(1), Num(2)>>), In(<<Num(0), Num(3), Num(3)>>)}

\* the operands of the and / or conditions tried; a bare literal is one of them
EvalOperands == {Gt(Num(1)), Le(Num(2)), Num(2), Not(Num(0))}

EvalConditions ==
  EvalBaseConditions
    \cup {Not(c) : c \in EvalBaseConditions}
    \cup {And(<<c, d>>) : c \in EvalOperands, d \in EvalOperands}
    \cup {Or(<<c, d>>) : c \in EvalOperands, d \in EvalOperands}
    \cup {And(<<>>), Or(<<>>)}

InitEvaluate ==
  /\ params = FreshParams
  /\ last = NoCall
  /\ calls = 0
  /\ objects = <<>>

\* c.evaluate(v)
EvaluateOp ==
  \E c \in EvalConditions, v \in EvalValues :
    /\ last' = [NoCall EXCEPT !.call = "evaluate",
                              !.input = [c |-> c, v |-> v],
                              !.ret = [bool |-> Evaluate(c, v)]]
    /\ UNCHANGED <<params, calls, objects>>

NextEvaluate == EvaluateOp

SpecEvaluate == InitEvaluate /\ [][NextEvaluate]_vars

(***************************************************************************)
(* Specification Spec: the exported builders, called one after another on   *)
(* one params object                                                        *)
(***************************************************************************)
kA == <<"a">>
kB == <<"b">>
kC == <<"c">>
kAdotB == <<"a", ".", "b">>
kA_B == <<"a", "_", "b">>
kSizeB == <<"s", "i", "z", "e", "(", "#", "b", ")">>
kOddName == <<"%", "f", "o", "o", "-", "4", "2", "*", "%">>
kHashFoo == <<"#", "f", "o", "o">>
kTwoRefs == <<"i", "f", "_", "n", "o", "t", "_", "e", "x", "i", "s", "t", "s",
              "(", "#", "b", ",", " ", "#", "c", ")">>
sX == Str(<<"x">>)
sHashB == Str(<<"#", "b">>)
sColonB == Str(<<":", "b">>)

\* the condition sets the builders are called with
ConditionInputs ==
  { Flat(<<>>),
    Flat(<<Entry(kA, Num(1)), Entry(kB, sX)>>),
    Flat(<<Entry(kA, Undefined)>>),
    Flat(<<Entry(kA, Num(1)), Entry(kB, Undefined)>>),
    Flat(<<Entry(kAdotB, Num(1)), Entry(kA_B, Num(1))>>),
    Flat(<<Entry(kB, Num(1)), Entry(kA, In(<<sHashB, Num(2)>>))>>),
    Flat(<<Entry(kA, sHashB)>>),
    Flat(<<Entry(kA, sColonB)>>),
    Flat(<<Entry(kSizeB, Gt(Num(1)))>>),
    Flat(<<Entry(kA, Not(Gt(Num(1))))>>),
    Flat(<<Entry(kA, Or(<<Num(1), Gt(Num(2)), AttributeExists>>))>>),
    Flat(<<Entry(kA, Between(Num(1), Num(2)))>>),
    CompositeCondition("OR", <<>>),
    CompositeCondition("OR", <<Flat(<<Entry(kA, Num(1))>>)>>),
    CompositeCondition("OR", <<Flat(<<Entry(kA, Num(1)), Entry(kB, sX)>>)>>),
    CompositeCondition("AND", <<Flat(<<Entry(kA, Num(1))>>),
                                CompositeCondition("OR", <<CompositeCondition("AND", <<>>)>>)>>),
    CompositeCondition("OR", <<Flat(<<Entry(kA, Undefined)>>),
                               Flat(<<Entry(kB, Num(1))>>)>>),
    CompositeCondition("OR", <<Flat(<<Entry(kA, Num(1)), Entry(kB, sX)>>),
                               Flat(<<Entry(kA, Num(2)), Entry(kB, sX)>>)>>),
    CompositeCondition("AND", <<CompositeCondition("OR", <<Flat(<<Entry(kA_B, Num(1))>>),
                                                           Flat(<<Entry(kAdotB, Num(1))>>)>>),
                                Flat(<<Entry(kA_B, Num(1))>>)>>) }

\* the update mappings the builders are called with
UpdateInputs ==
  { <<>>,
    <<Entry(kA, Num(1)), Entry(kB, UpdateRemove)>>,
    <<Entry(kA, UpdateRemove), Entry(kB, Num(1))>>,
    <<Entry(kA, Num(1)), Entry(kB, UpdateRemove), Entry(kC, Num(2))>>,
    <<Entry(kA, Num(1)), Entry(kB, UpdateRemove), Entry(kC, UpdateAdd(Num(1))),
      Entry(kA_B, UpdateDelete(Ref(1)))>>,
    <<Entry(kA, UpdateDelete(Ref(1))), Entry(kB, UpdateAdd(Num(1))),
      Entry(kC, UpdateRemove), Entry(kA_B, Num(1)), Entry(kAdotB, UpdateAdd(Num(1)))>>,
    <<Entry(kA, Undefined)>>,
    <<Entry(kA, sHashB)>>,
    <<Entry(kA, Str(kSizeB))>>,
    <<Entry(kA, Str(<<"#">> \o kOddName))>>,
    <<Entry(kA, Str(<<"#">> \o kHashFoo))>>,
    <<Entry(kA, Str(kTwoRefs))>>,
    <<Entry(kA, UpdateSet(SetValueAppend(Str(kA), Ref(1))))>>,
    <<Entry(kA, UpdateSet(SetValueAppend(Str(kA), Str(kB))))>>,
    <<Entry(kA, UpdateSet(SetValueAppend(SetValueIfNotExists(kB, Ref(1)), Ref(2))))>> }

Init ==
  /\ params \in InitialParams
  /\ last = [NoCall EXCEPT !.pre = params]
  /\ calls = 0
  /\ objects = <<>>

\* the Params-style builders never throwing
Falsy_Never(expression) == FALSE

\* !expression, the test before the throw
Falsy(expression) == IsUndefined(expression) \/ expression = Str(<<>>)

\* build(...) || undefined of the legacy builders
LegacyResult(expression) == IF IsTruthy(expression) THEN expression ELSE Undefined

\* the record of a call that ran builder outcome r and then returned or threw
CallRecord(call, input, r, thrown) ==
  [call |-> call, input |-> input, pre |-> params,
   ret |-> LegacyResult(r.ret), thrown |-> thrown,
   conditions |-> IF "conditions" \in DOMAIN r THEN r.conditions ELSE <<>>,
   fragments |-> IF "fragments" \in DOMAIN r THEN r.fragments ELSE <<>>,
   actions |-> IF "actions" \in DOMAIN r THEN r.actions ELSE <<>>,
   built |-> IF "built" \in DOMAIN r THEN r.built ELSE <<>>,
   log |-> r.b.log, hist |-> <<>>]

\* buildConditionExpression(conditions, params)
BuildConditionExpression(inputs, max) ==
  /\ calls < max
  /\ \E conditions \in inputs :
       \E r \in ConditionSetBuild(conditions, NewBuilder(params, "cond")) :
         /\ params' = WithTables(params, r.b)
         /\ last' = CallRecord("buildConditionExpression", conditions, r, FALSE)
         /\ calls' = calls + 1
  /\ UNCHANGED objects

\* buildConditionParams({conditions, params})
BuildConditionParams(inputs, max) ==
  /\ calls < max
  /\ \E conditions \in inputs :
       \E r \in ConditionSetBuild(conditions, NewBuilder(params, "cond")) :
         /\ params' = IF Falsy(r.ret) THEN WithTables(params, r.b)
                      ELSE [WithTables(params, r.b) EXCEPT !.ConditionExpression = r.ret]
         /\ last' = CallRecord("buildConditionParams", conditions, r, Falsy(r.ret))
         /\ calls' = calls + 1
  /\ UNCHANGED objects

\* buildKeyConditionParams({conditions, params})
BuildKeyConditionParams(inputs, max) ==
  /\ calls < max
  /\ \E conditions \in inputs :
       \E r \in ConditionSetBuild(conditions, NewBuilder(params, "cond")) :
         /\ params' = IF Falsy(r.ret) THEN WithTables(params, r.b)
                      ELSE [WithTables(params, r.b) EXCEPT !.KeyConditionExpression = r.ret]
         /\ last' = CallRecord("buildKeyConditionParams", conditions, r, Falsy(r.ret))
         /\ calls' = calls + 1
  /\ UNCHANGED objects

\* buildUpdateExpression(attributes, params)
BuildUpdateExpression(inputs, max) ==
  /\ calls < max
  /\ \E attributes \in inputs :
       \E r \in UpdateBuild(attributes, NewBuilder(params, "upd")) :
         /\ params' = WithTables(params, r.b)
         /\ last' = CallRecord("buildUpdateExpression", attributes, r, FALSE)
         /\ calls' = calls + 1
  /\ UNCHANGED objects

\* buildUpdateParams({attributes, params})
BuildUpdateParams(inputs, max) ==
  /\ calls < max
  /\ \E attributes \in inputs :
       \E r \in UpdateBuild(attributes, NewBuilder(params, "upd")) :
         /\ params' = IF Falsy(r.ret) THEN WithTables(params, r.b)
                      ELSE [WithTables(params, r.b) EXCEPT !.UpdateExpression = r.ret]
         /\ last' = CallRecord("buildUpdateParams", attributes, r, Falsy(r.ret))
         /\ calls' = calls + 1
  /\ UNCHANGED objects

\* the inputs of the mixed runs: empty and non-empty ones of both kinds
SharedConditionInputs ==
  { Flat(<<>>),
    Flat(<<Entry(kA, Num(1)), Entry(kB, sX)>>),
    Flat(<<Entry(kA, Undefined)>>),
    Flat(<<Entry(kA, Undefined), Entry(kB, Num(1))>>),
    CompositeCondition("OR", <<>>),
    CompositeCondition("AND", <<Flat(<<Entry(kA, Num(1))>>),
                                CompositeCondition("OR", <<CompositeCondition("AND", <<>>)>>)>>),
    CompositeCondition("OR", <<Flat(<<Entry(kA, Undefined)>>), Flat(<<>>)>>) }

SharedUpdateInputs ==
  { <<>>,
    <<Entry(kA, Num(1)), Entry(kB, UpdateRemove)>>,
    <<Entry(kA, Undefined)>>,
    <<Entry(kA_B, UpdateAdd(Num(2))), Entry(kAdotB, sHashB)>> }

Next ==
  \/ BuildConditionExpression(SharedConditionInputs, MaxCalls)
  \/ BuildConditionParams(SharedConditionInputs, MaxCalls)
  \/ BuildKeyConditionParams(SharedConditionInputs, MaxCalls)
  \/ BuildUpdateExpression(SharedUpdateInputs, MaxCalls)
  \/ BuildUpdateParams(SharedUpdateInputs, MaxCalls)

Spec == Init /\ [][Next]_vars

(***************************************************************************)
(* Specification SpecCond: the condition builders alone                     *)
(***************************************************************************)
NextCond ==
  \/ BuildConditionExpression(ConditionInputs, MaxCondCalls)
  \/ BuildConditionParams(ConditionInputs, MaxCondCalls)

SpecCond == Init /\ [][NextCond]_vars

(***************************************************************************)
(* Specification SpecUpd: the update builders alone                         *)
(***************************************************************************)
NextUpd ==
  \/ BuildUpdateExpression(UpdateInputs, MaxUpdCalls)
  \/ BuildUpdateParams(UpdateInputs, MaxUpdCalls)

SpecUpd == Init /\ [][NextUpd]_vars

(***************************************************************************)
(* Specification SpecAttr: conditions on one attribute, with and without a  *)
(* default value, rendered by buildConditionExpression                      *)
(***************************************************************************)
\* the conditions put on the attribute
AttrConditions ==
  { In(<<Num(1), Num(2), Num(3)>>),
    Eq(Num(1)),
    Gt(Num(1)),
    Between(Num(1), Num(2)),
    Not(Gt(Num(1))),
    Or(<<Num(1), Gt(Num(2)), AttributeExists>>),
    And(<<Gt(Num(0)), Lt(Num(3))>>),
    Or(<<Num(1), Num(2)>>) }

\* the default values tried: none, and the integers
AttrDefaults == {Undefined} \cup EvalValues

\* buildConditionExpression({a: c.withDefaultValue(d)}, params), once per
\* params object
BuildAttributeCondition ==
  /\ last.call = NoCall.call
  /\ \E c \in AttrConditions, d \in AttrDefaults :
       LET result == WithDefaultValue(c, d)
       IN \E r \in ConditionSetBuild(Flat(<<Entry(kA, result)>>),
                                     NewBuilder(params, "cond")) :
            /\ params' = WithTables(params, r.b)
            /\ last' = CallRecord("withDefaultValue",
                                  [c |-> c, d |-> d, key |-> kA, result |-> result],
                                  r, FALSE)
            /\ calls' = calls + 1
  /\ UNCHANGED objects

\* JSON.stringify(c) of a Condition instance: its own properties build and
\* evaluate are functions, which JSON.stringify leaves out
JsonStringify(c) == IF IsCondition(c) THEN <<"{", "}">> ELSE JsString(c)

\* JSON.parse(text): '{}' gives a new plain object
JsonParse(text) == IF text = <<"{", "}">> THEN Ref(0) ELSE Str(text)

\* buildConditionExpression({a: Condition.from(JSON.parse(JSON.stringify(c)))},
\* params), once per params object
RoundTripCondition ==
  /\ last.call = NoCall.call
  /\ \E c \in AttrConditions :
       LET result == ConditionFrom(JsonParse(JsonStringify(c)))
       IN \E r \in ConditionSetBuild(Flat(<<Entry(kA, result)>>),
                                     NewBuilder(params, "cond")) :
            /\ params' = WithTables(params, r.b)
            /\ last' = CallRecord("roundTrip",
                                  [c |-> c, d |-> Undefined, key |-> kA, result |-> result],
                                  r, FALSE)
            /\ calls' = calls + 1
  /\ UNCHANGED objects

NextAttr ==
  \/ BuildAttributeCondition
  \/ RoundTripCondition

SpecAttr == Init /\ [][NextAttr]_vars

(***************************************************************************)
(* Specification SpecComposite: CompositeCondition objects, created with    *)
(* the constructor and derived from one another with .and(...) / .or(...).  *)
(* objects is the sequence of the instances created so far; an operand is   *)
(* a flat condition set or Ref(i), the i-th instance.  last.hist keeps, per *)
(* instance, the expression it rendered to when it was created.             *)
(***************************************************************************)
NewCompositeObject(operator, operands) == [operator |-> operator, operands |-> operands]

\* the condition set an operand stands for, instances followed to their
\* operands
RECURSIVE Deref(_, _)
Deref(objs, c) ==
  IF "ref" \in DOMAIN c
  THEN CompositeCondition(objs[c.ref].operator,
                          [k \in DOMAIN objs[c.ref].operands |->
                             Deref(objs, objs[c.ref].operands[k])])
  ELSE c

\* an and / or that pushes its arguments onto the receiver's own operands
DeriveComposite_InPlace(objs, i, operator, operands) ==
  Append([objs EXCEPT ![i].operands = @ \o operands],
         NewCompositeObject(operator, <<Ref(i)>> \o operands))

\* new CompositeCondition(operator, [this, ...operands]) with this = objs[i]
DeriveComposite(objs, i, operator, operands) ==
  Append(objs, NewCompositeObject(operator, <<Ref(i)>> \o operands))

\* buildConditionExpression(objs[i], {}): the expressions it can return
Renderings(objs, i) ==
  {LegacyResult(r.ret) :
     r \in ConditionSetBuild(Deref(objs, Ref(i)), NewBuilder(FreshParams, "cond"))}

\* the argument lists tried: none, one and two flat condition sets
CompositeArgs ==
  { <<>>,
    <<Flat(<<Entry(kA, Num(1))>>)>>,
    <<Flat(<<Entry(kA, Num(1))>>), Flat(<<Entry(kB, Num(1))>>)>> }

CompositeCall(call, input, ret, objs) ==
  [NoCall EXCEPT !.call = call, !.input = input, !.ret = ret,
                 !.hist = Append(last.hist, Renderings(objs, Len(objs)))]

InitComposite ==
  /\ params = FreshParams
  /\ last = NoCall
  /\ calls = 0
  /\ objects = <<>>

\* new CompositeCondition(operator, operands), as ConditionSet.and / .or do
NewComposite ==
  /\ Len(objects) < MaxObjects
  /\ \E operator \in {"AND", "OR"}, operands \in CompositeArgs :
       LET objs == Append(objects, NewCompositeObject(operator, operands))
       IN /\ objects' = objs
          /\ last' = CompositeCall("new", [operator |-> operator, operands |-> operands,
                                            before |-> objects],
                                   Ref(Len(objs)), objs)
  /\ UNCHANGED <<params, calls>>

\* objects[i].and(...operands)
CompositeAnd ==
  /\ Len(objects) < MaxObjects
  /\ \E i \in DOMAIN objects, operands \in CompositeArgs :
       LET objs == DeriveComposite(objects, i, "AND", operands)
       IN /\ objects' = objs
          /\ last' = CompositeCall("and", [receiver |-> i, operands |-> operands,
                                            before |-> objects],
                                   Ref(Len(objs)), objs)
  /\ UNCHANGED <<params, calls>>

\* objects[i].or(...operands)
CompositeOr ==
  /\ Len(objects) < MaxObjects
  /\ \E i \in DOMAIN objects, operands \in CompositeArgs :
       LET objs == DeriveComposite(objects, i, "OR", operands)
       IN /\ objects' = objs
          /\ last' = CompositeCall("or", [receiver |-> i, operands |-> operands,
                                           before |-> objects],
                                   Ref(Len(objs)), objs)
  /\ UNCHANGED <<params, calls>>

\* buildConditionExpression(objects[i], {})
RenderComposite ==
  /\ last.call # "render"
  /\ \E i \in DOMAIN objects :
       \E r \in ConditionSetBuild(Deref(objects, Ref(i)), NewBuilder(FreshParams, "cond")) :
         /\ params' = WithTables(FreshParams, r.b)
         /\ last' = [NoCall EXCEPT !.call = "render", !.input = [receiver |-> i],
                                   !.ret = LegacyResult(r.ret), !.hist = last.hist]
  /\ UNCHANGED <<calls, objects>>

NextComposite ==
  \/ NewComposite
  \/ CompositeAnd
  \/ CompositeOr
  \/ RenderComposite

SpecComposite == InitComposite /\ [][NextComposite]_vars

(***************************************************************************)
(* Specification SpecRetry: the retry loop of addUniqueMapping, one         *)
(* iteration per step, on the value table of one params object.  The loop   *)
(* is entered for literals that all share the disambiguator ':cond_'; the   *)
(* random draw is fair: a suffix that can be drawn again and again is drawn. *)
(***************************************************************************)
RetryKey == <<":", "c", "o", "n", "d", "_">>

\* the distinct literals bound: two more than there are suffixes
RetryValues == {Num(n) : n \in 0..(Cardinality(Suffixes) + 1)}

InitRetry ==
  /\ params = FreshParams
  /\ last = NoCall
  /\ calls = 0
  /\ objects = <<>>

\* addUniqueMapping(values, key, value) is called: let uniqueKey = key
EnterLoop ==
  /\ last.call # "loop"
  /\ \E value \in RetryValues :
       last' = [NoCall EXCEPT !.call = "loop",
                              !.input = [key |-> RetryKey, value |-> value,
                                         uniqueKey |-> RetryKey],
                              !.pre = params]
  /\ UNCHANGED <<params, calls, objects>>

\* the loop body: uniqueKey = `${key}_${Math.floor(Math.random() * 1000)}`
DrawSuffix(n) ==
  /\ last.call = "loop"
  /\ Collides(params.values, last.input.uniqueKey, last.input.value)
  /\ last' = [last EXCEPT !.input.uniqueKey = last.input.key \o <<"_">> \o Digits(n)]
  /\ UNCHANGED <<params, calls, objects>>

\* the loop ends: values[uniqueKey] = value; return uniqueKey
ReturnKey ==
  /\ last.call = "loop"
  /\ ~Collides(params.values, last.input.uniqueKey, last.input.value)
  /\ params' = [params EXCEPT !.hasValues = TRUE,
                              !.values = Bind(params.values, last.input.uniqueKey,
                                              last.input.value)]
  /\ last' = [last EXCEPT !.call = "returned", !.ret = Str(last.input.uniqueKey)]
  /\ UNCHANGED <<calls, objects>>

NextRetry ==
  \/ EnterLoop
  \/ \E n \in Suffixes : DrawSuffix(n)
  \/ ReturnKey

SpecRetry ==
  /\ InitRetry
  /\ [][NextRetry]_vars
  /\ WF_vars(ReturnKey)
  /\ \A n \in Suffixes : SF_vars(DrawSuffix(n))

(***************************************************************************)
(* Specification SpecPath: addName called with attribute paths, one call    *)
(* after another on one params object.  last.hist keeps the path and the    *)
(* returned string of every call.                                           *)
(***************************************************************************)
\* the paths bound: plain, nested, and with index suffixes
PathInputs ==
  { kA, kAdotB, kA_B,
    <<"a", "[", "1", "]", ".", "b">>,
    <<"b", "[", "0", "]", "[", "1", "]">> }

\* builder.addName(path) on a builder of params
BindPath ==
  /\ calls < MaxPathCalls
  /\ \E path \in PathInputs :
       \E r \in AddName(path, <<>>, NewBuilder(params, "cond")) :
         /\ params' = WithTables(params, r.b)
         /\ last' = [NoCall EXCEPT !.call = "addName", !.input = Str(path),
                                   !.pre = params, !.ret = Str(r.s),
                                   !.log = r.b.log,
                                   !.hist = Append(last.hist,
                                                   [path |-> path, ret |-> Str(r.s)])]
         /\ calls' = calls + 1
  /\ UNCHANGED objects

NextPath == BindPath

SpecPath == InitTable /\ [][NextPath]_vars

(***************************************************************************)
(* Specification SpecLogic: buildConditionExpression on flat mappings,      *)
(* composites and not / and / or conditions over the attributes a, b, c     *)
(***************************************************************************)
LogicInputs ==
  { Flat(<<Entry(kA, Num(1)), Entry(kB, Gt(Num(1)))>>),
    CompositeCondition("OR", <<Flat(<<Entry(kA, Num(1)), Entry(kB, Num(1))>>),
                               Flat(<<Entry(kC, Num(1))>>)>>),
    CompositeCondition("AND", <<CompositeCondition("OR", <<Flat(<<Entry(kA, Num(1))>>),
                                                           Flat(<<Entry(kB, Num(1))>>)>>),
                                Flat(<<Entry(kC, Num(1))>>)>>),
    CompositeCondition("OR", <<CompositeCondition("AND", <<Flat(<<Entry(kA, Num(1))>>),
                                                           Flat(<<Entry(kB, Num(1))>>)>>),
                               Flat(<<Entry(kC, Num(1))>>)>>),
    Flat(<<Entry(kA, Not(Gt(Num(1)))), Entry(kB, Num(1))>>),
    Flat(<<Entry(kA, Or(<<Lt(Num(1)), Gt(Num(1))>>)), Entry(kB, Num(1))>>),
    Flat(<<Entry(kA, Not(Or(<<Lt(Num(1)), Gt(Num(1))>>))), Entry(kC, Lt(Num(1)))>>),
    CompositeCondition("AND", <<CompositeCondition("OR", <<Flat(<<Entry(kA, Num(1))>>),
                                                           Flat(<<>>)>>),
                                Flat(<<Entry(kB, Num(1))>>)>>),
    CompositeCondition("OR", <<CompositeCondition("AND", <<Flat(<<Entry(kA, Num(1)),
                                                                  Entry(kB, Undefined)>>)>>),
                               Flat(<<Entry(kC, And(<<Ge(Num(1)), Le(Num(1))>>))>>)>>),
    CompositeCondition("AND", <<CompositeCondition("OR", <<Flat(<<Entry(kA, Num(1)),
                                                                  Entry(kB, Num(1))>>),
                                                           Flat(<<Entry(kC, Num(1))>>)>>),
                                CompositeCondition("OR", <<Flat(<<Entry(kA, Gt(Num(1)))>>),
                                                           Flat(<<Entry(kB, Lt(Num(1)))>>)>>)>>) }

NextLogic == BuildConditionExpression(LogicInputs, MaxLogicCalls)

SpecLogic == Init /\ [][NextLogic]_vars

(***************************************************************************)
(* Claims about the symbol table (SpecTable)                                *)
(***************************************************************************)
NameEvents(log) == {i \in DOMAIN log : log[i].t = "name"}

\* C2: whenever bindName was asked, over the life of one table, to bind two
\* different raw keys that have the same candidate placeholder, it returned
\* two distinct placeholders, and each is bound in the name table to its own
\* raw key.
C2_NameCollisionSafety ==
  \A i, j \in NameEvents(last.hist) :
    LET e == last.hist[i]
        f == last.hist[j]
    IN (e.cand = f.cand /\ e.raw # f.raw) =>
         /\ e.ph # f.ph
         /\ e.ph \in DOMAIN params.names /\ params.names[e.ph] = e.raw
         /\ f.ph \in DOMAIN params.names /\ params.names[f.ph] = f.raw

\* two raw keys ('b' under prefix 'a_', and 'a_b') met on the candidate '#a_b'
C2_Witness ==
  \E i, j \in NameEvents(last.hist) :
    /\ last.hist[i].cand = <<"#", "a", "_", "b">>
    /\ last.hist[j].cand = <<"#", "a", "_", "b">>
    /\ last.hist[i].raw = Str(<<"b">>)
    /\ last.hist[j].raw = Str(<<"a", "_", "b">>)

\* the candidate ':<prefix><disambiguator>' of the last addOperand call
C4_Candidate ==
  <<":">> \o (IF last.input.kind = "cond" THEN <<"c", "o", "n", "d", "_">>
              ELSE <<"v", "a", "l", "_">>) \o last.input.prefix

\* the last call was a bindValue of a literal (no escape involved)
C4_ValueCall ==
  /\ last.call = "addOperand"
  /\ last.input.defaultType = "value"
  /\ ~IsString(last.input.operand)

\* C4: bindValue(value, disambiguator): if the candidate is already bound to
\* the identical value, the candidate is returned and the value table is
\* unchanged; if it is bound to a different value, a different placeholder is
\* returned, it is bound to the new value, and the candidate stays bound to
\* the old value.
C4_BindValue ==
  C4_ValueCall =>
    LET cand == C4_Candidate
        value == last.input.operand
        old == last.pre.values
        new == params.values
    IN /\ (cand \in DOMAIN old /\ old[cand] = value) =>
            (last.ret = Str(cand) /\ new = old)
       /\ (cand \in DOMAIN old /\ old[cand] # value) =>
            /\ last.ret # Str(cand)
            /\ last.ret.str \in DOMAIN new /\ new[last.ret.str] = value
            /\ new[cand] = old[cand]

\* a literal was bound while its candidate held a different value
C4_Witness ==
  /\ C4_ValueCall
  /\ C4_Candidate \in DOMAIN last.pre.values
  /\ last.pre.values[C4_Candidate] # last.input.operand
  /\ last.ret # Str(C4_Candidate)

(***************************************************************************)
(* Claims about the exported builders sharing one params object (Spec)      *)
(***************************************************************************)
\* every entry of table old is in table new, bound to the same value
Preserved(old, new) ==
  \A k \in DOMAIN old : k \in DOMAIN new /\ new[k] = old[k]

\* C1: over any sequence of builder calls sharing one params object, also one
\* whose tables the caller filled beforehand, every placeholder -> value entry
\* a table held before a call is still there, bound to the same value, after
\* the call: entries are only added.
C1_TablesOnlyGrow ==
  /\ Preserved(last.pre.names, params.names)
  /\ Preserved(last.pre.values, params.values)
  /\ (last.pre.hasNames => params.hasNames)
  /\ (last.pre.hasValues => params.hasValues)

\* a second call on tables a first call had written to, asking for a
\* placeholder that was taken by another value and getting a suffixed one
C1_Witness ==
  /\ calls = 2
  /\ last.call \in {"buildUpdateParams", "buildConditionExpression"}
  /\ \E i \in DOMAIN last.log :
       /\ last.log[i].cand \in DOMAIN last.pre.names \cup DOMAIN last.pre.values
       /\ last.log[i].ph # last.log[i].cand
  /\ Cardinality(DOMAIN params.names) > Cardinality(DOMAIN last.pre.names)

RECURSIVE RendersNothing(_)
\* a condition set that has no clause to render: a mapping with no entry whose
\* value is defined, or a composite all of whose operands have none
RendersNothing(c) ==
  IF IsComposite(c)
  THEN \A i \in DOMAIN c.operands : RendersNothing(c.operands[i])
  ELSE \A i \in DOMAIN c.flat : IsUndefined(c.flat[i].value)

\* the input of the last call has no clause to render
NoClause ==
  IF last.call \in {"buildUpdateExpression", "buildUpdateParams"}
  THEN last.input = <<>>
  ELSE RendersNothing(last.input)

\* the expression field the last Params-style call assigns
ExpressionField ==
  CASE last.call = "buildConditionParams" -> params.ConditionExpression
    [] last.call = "buildKeyConditionParams" -> params.KeyConditionExpression
    [] last.call = "buildUpdateParams" -> params.UpdateExpression

\* a non-empty string
IsNonEmptyString(v) == IsString(v) /\ v.str # <<>>

\* C5: buildConditionParams and buildKeyConditionParams throw whenever the
\* conditions render to no expression, buildUpdateParams throws when attributes
\* is an empty mapping, and a call that returns has set its expression field
\* to a non-empty string.
C5_ParamsThrowOnEmpty ==
  last.call \in {"buildConditionParams", "buildKeyConditionParams",
                 "buildUpdateParams"} =>
    /\ NoClause => last.thrown
    /\ ~last.thrown => IsNonEmptyString(ExpressionField)

\* buildKeyConditionParams threw on a composite whose operands all render empty
C5_Witness ==
  /\ last.call = "buildKeyConditionParams"
  /\ IsComposite(last.input) /\ last.input.operands # <<>>
  /\ NoClause
  /\ last.thrown

\* the input of the last call is an empty mapping or a composite without operands
EmptyInput ==
  IF last.call \in {"buildUpdateExpression", "buildUpdateParams"}
  THEN last.input = <<>>
  ELSE IF IsComposite(last.input) THEN last.input.operands = <<>>
  ELSE last.input.flat = <<>>

LegacyCalls == {"buildConditionExpression", "buildUpdateExpression"}

\* C6 as stated: the legacy builders never throw; they return undefined for an
\* empty mapping or an empty composite and a non-empty string for any
\* non-empty input.
C6_LegacyNonEmptyInput ==
  last.call \in LegacyCalls =>
    /\ ~last.thrown
    /\ EmptyInput => last.ret = Undefined
    /\ ~EmptyInput => IsNonEmptyString(last.ret)

\* C6, amended: the legacy builders never throw; they return undefined exactly
\* when the input has no clause to render (an empty update mapping; a
\* condition mapping with no entry whose value is defined; a composite all of
\* whose operands render nothing) and a non-empty string otherwise.
C6_LegacyUndefinedOnNoClause ==
  last.call \in LegacyCalls =>
    /\ ~last.thrown
    /\ NoClause => last.ret = Undefined
    /\ ~NoClause => IsNonEmptyString(last.ret)

\* buildConditionExpression({a: undefined}) returned undefined
C6_Witness ==
  /\ last.call = "buildConditionExpression"
  /\ last.input = Flat(<<Entry(kA, Undefined)>>)
  /\ last.ret = Undefined
  /\ ~last.thrown

(***************************************************************************)
(* Claims about the condition builders (SpecCond)                           *)
(***************************************************************************)
ConditionCalls ==
  {"buildConditionExpression", "buildConditionParams", "buildKeyConditionParams"}

\* the attribute a name binding refers to: the segments of the path up to and
\* including the one bound
AttributeOf(e) == SubSeq(Split(e.path, "."), 1, e.idx)

\* C3: when a non-empty flat condition mapping, or a composite of such
\* mappings, is rendered in one pass, every reference to the same attribute
\* path renders the identical placeholder, and the pass uses exactly one
\* placeholder per distinct attribute path referenced.
C3_OnePlaceholderPerPath ==
  (last.call \in ConditionCalls /\ IsString(last.ret)) =>
    LET refs == {last.log[i] : i \in NameEvents(last.log)}
    IN /\ \A e, f \in refs : AttributeOf(e) = AttributeOf(f) => e.ph = f.ph
       /\ Cardinality({e.ph : e \in refs}) = Cardinality({AttributeOf(e) : e \in refs})

\* the fragments of the last call's composite that did not render empty
Survivors == Truthy(last.fragments)

\* the operand of the last call's composite whose fragment is the only survivor
OnlySurvivor ==
  last.input.operands[CHOOSE i \in DOMAIN last.fragments : IsTruthy(last.fragments[i])]

\* every binding the last call made is in the table of the params object
BoundInSharedTable ==
  \A i \in DOMAIN last.log :
    LET e == last.log[i]
        table == IF e.t = "name" THEN params.names ELSE params.values
    IN e.ph \in DOMAIN table /\ table[e.ph] = e.raw

\* C9: rendering a composite renders each operand against the one shared
\* table, drops the operands that render empty, joins the surviving fragments
\* with ' AND ' or ' OR ' per its operator and parenthesises the result if and
\* only if more than one survived; with exactly one surviving operand A the
\* expression and the tables are those of rendering A alone, and with none the
\* composite renders as no expression.
C9_CompositeRendering ==
  (last.call \in ConditionCalls /\ IsComposite(last.input)) =>
    /\ Len(last.fragments) = Len(last.input.operands)
    /\ BoundInSharedTable
    /\ Len(Survivors) = 0 => last.ret = Undefined
    /\ Len(Survivors) = 1 =>
         /\ last.ret = Str(Survivors[1])
         /\ \E r \in ConditionSetBuild(OnlySurvivor, NewBuilder(last.pre, "cond")) :
              /\ r.ret = last.ret
              /\ r.b.names = params.names /\ r.b.hasNames = params.hasNames
              /\ r.b.values = params.values /\ r.b.hasValues = params.hasValues
    /\ Len(Survivors) > 1 =>
         last.ret = Str(<<"(">>
                        \o Join(Survivors,
                                IF last.input.operator = "AND"
                                THEN <<" ", "A", "N", "D", " ">>
                                ELSE <<" ", "O", "R", " ">>)
                        \o <<")">>)

\* a composite of two operands, one rendering empty: the other's fragment came
\* back without parentheses
C9_Witness ==
  /\ last.call \in ConditionCalls
  /\ IsComposite(last.input)
  /\ Len(last.fragments) = 2
  /\ Len(Survivors) = 1
  /\ IsString(last.ret) /\ last.ret.str[1] # "("

\* a key that addOperand binds as one attribute name: no path separator, no
\* index, no '#' reference, no ':' escape
IsPlainName(key) ==
  /\ key # <<>>
  /\ key[1] # ":"
  /\ \A c \in {".", "[", "#"} : ~Includes(key, c)

\* a literal that addOperand binds as it is: not a condition and not a string
\* carrying the ':' or '#' escapes
IsPlainLiteral(value) ==
  /\ ~IsCondition(value)
  /\ ~IsUndefined(value)
  /\ IsString(value) => (value.str # <<>> => value.str[1] # ":") /\ ~Includes(value.str, "#")

\* clause is '<name placeholder> = <value placeholder>', the name placeholder
\* bound to key and the value placeholder bound to value
IsEqualityClause(clause, key, value) ==
  \E pn \in DOMAIN params.names, pv \in DOMAIN params.values :
    /\ clause = pn \o <<" ", "=", " ">> \o pv
    /\ pn[1] = "#" /\ pv[1] = ":"
    /\ params.names[pn] = Str(key)
    /\ params.values[pv] = value

\* undefined-valued entries excepted
IsDefinedEntry(e) == ~IsUndefined(e.value)

\* C10 as stated: a flat condition mapping renders one clause per entry, in
\* the mapping's iteration order, joined by ' AND '; an entry whose value is a
\* bare literal renders as '<name placeholder> = <value placeholder>', the
\* name placeholder bound to the key and the value placeholder to the literal.
C10_ClausePerEntry ==
  (last.call \in ConditionCalls /\ ~IsComposite(last.input)) =>
    LET entries == last.input.flat
    IN /\ Len(last.conditions) = Len(entries)
       /\ last.ret = OrUndefined(Join(last.conditions, <<" ", "A", "N", "D", " ">>))
       /\ \A i \in DOMAIN entries :
            ~IsCondition(entries[i].value) =>
              /\ i \in DOMAIN last.conditions
              /\ IsEqualityClause(last.conditions[i], entries[i].key, entries[i].value)

\* C10, amended: a flat condition mapping renders one clause per entry whose
\* value is not undefined, in the mapping's iteration order, joined by
\* ' AND '; such an entry whose key is a plain attribute name and whose value
\* is a bare literal without the ':' / '#' escapes renders as
\* '<name placeholder> = <value placeholder>', the name placeholder bound to
\* the key and the value placeholder to the literal.
C10_ClausePerDefinedEntry ==
  (last.call \in ConditionCalls /\ ~IsComposite(last.input)) =>
    LET entries == SelectSeq(last.input.flat, IsDefinedEntry)
    IN /\ Len(last.conditions) = Len(entries)
       /\ last.ret = OrUndefined(Join(last.conditions, <<" ", "A", "N", "D", " ">>))
       /\ \A i \in DOMAIN entries :
            (IsPlainName(entries[i].key) /\ IsPlainLiteral(entries[i].value)) =>
              IsEqualityClause(last.conditions[i], entries[i].key, entries[i].value)

\* {a: 1, b: 'x'} rendered two equality clauses
C10_Witness ==
  /\ last.call \in ConditionCalls
  /\ last.input = Flat(<<Entry(kA, Num(1)), Entry(kB, sX)>>)
  /\ Len(last.conditions) = 2
  /\ IsEqualityClause(last.conditions[2], kB, sX)

(***************************************************************************)
(* Claims about the update builders (SpecUpd)                               *)
(***************************************************************************)
UpdateCalls == {"buildUpdateExpression", "buildUpdateParams"}

\* the action kind of entry i of the last call's update mapping
KindOfEntry(i) == UpdateActionFrom(last.input[i].value).action

\* the kinds that occur in the update mapping
KindsPresent == {KindOfEntry(i) : i \in DOMAIN last.input}

\* the first entry of kind k
FirstEntryOf(k) ==
  CHOOSE i \in DOMAIN last.input :
    KindOfEntry(i) = k /\ \A j \in 1..(i - 1) : KindOfEntry(j) # k

\* the n-th kind in order of first occurrence
KindByFirstOccurrence(n) ==
  CHOOSE k \in KindsPresent :
    Cardinality({j \in KindsPresent : FirstEntryOf(j) < FirstEntryOf(k)}) = n - 1

RECURSIVE ItemsOfKind(_, _)
\* the rendered items of kind k among the entries from i on, in input order
ItemsOfKind(k, i) ==
  IF i > Len(last.built) THEN <<>>
  ELSE (IF last.built[i].type = k THEN <<last.built[i].expression>> ELSE <<>>)
         \o ItemsOfKind(k, i + 1)

\* '<KIND> item, item, ...' for kind k
ClauseOfKind(k) == ActionTypeText(k) \o <<" ">> \o Join(ItemsOfKind(k, 1), <<",", " ">>)

\* C7: an update mapping renders exactly one clause per action kind occurring
\* in it; each clause is '<KIND> item, item, ...' with all items of that kind
\* in input order, also when interleaved with other kinds; the clauses are
\* joined by one space, in the order in which each kind first occurs.
C7_GroupedByKind ==
  last.call \in UpdateCalls =>
    /\ Len(last.built) = Len(last.input)
    /\ \A i \in DOMAIN last.input : last.built[i].type = KindOfEntry(i)
    /\ last.ret = OrUndefined(Join([n \in 1..Cardinality(KindsPresent) |->
                                      ClauseOfKind(KindByFirstOccurrence(n))],
                                   <<" ">>))

\* SET, REMOVE, SET: the two SET items were grouped into one clause
C7_Witness ==
  /\ last.call \in UpdateCalls
  /\ Len(last.input) = 3
  /\ KindOfEntry(1) = "SET" /\ KindOfEntry(2) = "REMOVE" /\ KindOfEntry(3) = "SET"
  /\ IsString(last.ret)
  /\ Len(last.actions) = 2

\* a word of the rendered expression that is an action kind
IsKindWord(w) == \E k \in {"SET", "REMOVE", "ADD", "DELETE"} : w = ActionTypeText(k)

\* the action kinds heading the clauses of the rendered expression, in order
RenderedKinds ==
  IF IsString(last.ret) THEN SelectSeq(Split(last.ret.str, " "), IsKindWord) ELSE <<>>

\* the place of a kind word in the order SET, REMOVE, ADD, DELETE
FixedRank(w) ==
  CHOOSE n \in 1..4 : w = ActionTypeText(<<"SET", "REMOVE", "ADD", "DELETE">>[n])

\* C8 as stated: whatever the order of the entries, the rendered clauses are
\* in the fixed kind order SET, REMOVE, ADD, DELETE, and kinds absent from the
\* input produce no clause.
C8_FixedKindOrder ==
  last.call \in UpdateCalls =>
    /\ \A i, j \in DOMAIN RenderedKinds :
         i < j => FixedRank(RenderedKinds[i]) < FixedRank(RenderedKinds[j])
    /\ {RenderedKinds[i] : i \in DOMAIN RenderedKinds}
         = {ActionTypeText(k) : k \in KindsPresent}

\* C8, amended: the rendered clauses are in the order in which their kinds
\* first occur among the entries (SET, REMOVE, ADD, DELETE only when the kinds
\* first occur in that order); each kind present heads exactly one clause and
\* kinds absent from the input produce no clause.
C8_FirstOccurrenceKindOrder ==
  last.call \in UpdateCalls =>
    RenderedKinds = [n \in 1..Cardinality(KindsPresent) |->
                       ActionTypeText(KindByFirstOccurrence(n))]

\* {a: remove(), b: 1} rendered REMOVE before SET
C8_Witness ==
  /\ last.call \in UpdateCalls
  /\ Len(last.input) = 2
  /\ KindOfEntry(1) = "REMOVE" /\ KindOfEntry(2) = "SET"
  /\ RenderedKinds = <<ActionTypeText("REMOVE"), ActionTypeText("SET")>>

\* the last update call started from a params object without tables
FromEmptyTables == last.pre.names = EmptyTable /\ last.pre.values = EmptyTable

\* the last update call was given the one-entry mapping {a: value}
UpdateOfA(value) == last.call \in UpdateCalls /\ last.input = <<Entry(kA, value)>>

SetAText == <<"S", "E", "T", " ", "#", "a", " ", "=", " ">>

\* C12: in an update mapping, a bare string value that is a '#'-reference to
\* attribute b ('#b' or 'size(#b)') renders the name placeholder '#b' bound to
\* 'b', spliced into the string in place of the reference, and adds no
\* value-table entry: {a: '#b'} renders 'SET #a = #b' with names exactly
\* {'#a': 'a', '#b': 'b'}.
C12_HashReferenceInUpdate ==
  \A text \in {<<"#", "b">>, kSizeB} :
    (UpdateOfA(Str(text)) /\ FromEmptyTables) =>
      /\ last.ret = Str(SetAText \o text)
      /\ params.names = (<<"#", "a">> :> Str(kA)) @@ (<<"#", "b">> :> Str(kB))
      /\ params.values = EmptyTable

\* C13: a string path operand of SetValue.append resolves to the name
\* placeholder the path receives as a mapping key: {a: set(append('a', L))}
\* renders 'SET #a = list_append(#a, p)' with names exactly {'#a': 'a'} and p
\* bound to L; append('a', 'b') binds exactly '#a' and '#b' and no value.
C13_AppendPathOperand ==
  /\ (UpdateOfA(UpdateSet(SetValueAppend(Str(kA), Ref(1)))) /\ FromEmptyTables) =>
       /\ params.names = (<<"#", "a">> :> Str(kA))
       /\ \E p \in DOMAIN params.values :
            /\ params.values[p] = Ref(1)
            /\ last.ret = Str(SetAText
                              \o <<"l", "i", "s", "t", "_", "a", "p", "p", "e", "n", "d",
                                   "(", "#", "a", ",", " ">> \o p \o <<")">>)
  /\ (UpdateOfA(UpdateSet(SetValueAppend(Str(kA), Str(kB)))) /\ FromEmptyTables) =>
       /\ params.names = (<<"#", "a">> :> Str(kA)) @@ (<<"#", "b">> :> Str(kB))
       /\ params.values = EmptyTable

\* C21: the name placeholder of a raw attribute name is '#' followed by the
\* name's alphanumeric characters only, and the table keeps the raw name:
\* {a: '#%foo-42*%'} renders 'SET #a = #foo42' with names
\* {'#a': 'a', '#foo42': '%foo-42*%'}, and {a: '##foo'} renders 'SET #a = #foo'
\* with '#foo' bound to '#foo'.
C21_AlphanumericPlaceholder ==
  /\ (UpdateOfA(Str(<<"#">> \o kOddName)) /\ FromEmptyTables) =>
       /\ last.ret = Str(SetAText \o <<"#", "f", "o", "o", "4", "2">>)
       /\ params.names = (<<"#", "a">> :> Str(kA))
                          @@ (<<"#", "f", "o", "o", "4", "2">> :> Str(kOddName))
  /\ (UpdateOfA(Str(<<"#">> \o kHashFoo)) /\ FromEmptyTables) =>
       /\ last.ret = Str(SetAText \o <<"#", "f", "o", "o">>)
       /\ params.names = (<<"#", "a">> :> Str(kA)) @@ (<<"#", "f", "o", "o">> :> Str(kHashFoo))

\* 'SET na = list_append(if_not_exists(nb, p1), p2)'
NestedAppendText(na, nb, p1, p2) ==
  <<"S", "E", "T", " ">> \o na \o <<" ", "=", " ">>
    \o <<"l", "i", "s", "t", "_", "a", "p", "p", "e", "n", "d", "(">>
    \o <<"i", "f", "_", "n", "o", "t", "_", "e", "x", "i", "s", "t", "s", "(">>
    \o nb \o <<",", " ">> \o p1 \o <<")", ",", " ">> \o p2 \o <<")">>

\* C14: SET-value functions compose through one shared table:
\* append(ifNotExists('b', X), Y) assigned to a renders
\* 'SET #a = list_append(if_not_exists(#b, p1), p2)', the two name
\* placeholders bound to 'a' and 'b' (they are '#a' and '#b', the only names,
\* when the tables started empty), p1 and p2 distinct, p1 bound to X and p2
\* bound to Y.
C14_NestedSetValues ==
  UpdateOfA(UpdateSet(SetValueAppend(SetValueIfNotExists(kB, Ref(1)), Ref(2)))) =>
    /\ \E na, nb \in DOMAIN params.names, p1, p2 \in DOMAIN params.values :
         /\ params.names[na] = Str(kA) /\ params.names[nb] = Str(kB)
         /\ p1 # p2
         /\ params.values[p1] = Ref(1) /\ params.values[p2] = Ref(2)
         /\ last.ret = Str(NestedAppendText(na, nb, p1, p2))
    /\ FromEmptyTables =>
         /\ params.names = (<<"#", "a">> :> Str(kA)) @@ (<<"#", "b">> :> Str(kB))
         /\ \E p1, p2 \in DOMAIN params.values :
              last.ret = Str(NestedAppendText(<<"#", "a">>, <<"#", "b">>, p1, p2))

\* the nested SET value was rendered from empty tables
C14_Witness ==
  /\ UpdateOfA(UpdateSet(SetValueAppend(SetValueIfNotExists(kB, Ref(1)), Ref(2))))
  /\ FromEmptyTables
  /\ IsString(last.ret)
  /\ Cardinality(DOMAIN params.values) = 2

(***************************************************************************)
(* Claims about the operand escapes (SpecEscape)                            *)
(***************************************************************************)
\* the text of the string operand of the last addOperand call
OperandText == last.input.operand.str

\* the last call resolved a string operand that begins with ':'
ColonOperand ==
  /\ last.call = "addOperand"
  /\ OperandText # <<>>
  /\ OperandText[1] = ":"

\* C11: a string operand beginning with ':' is bound as a value whatever the
\* default role, with exactly the first colon stripped and no name bound:
\* '::b' binds the literal ':b', ':#b' the literal '#b', ':the_value' the
\* literal 'the_value'.
C11_LiteralEscape ==
  ColonOperand =>
    LET s == OperandText
        ph == last.ret.str
    IN /\ ph # <<>> /\ ph[1] = ":"
       /\ ph \in DOMAIN params.values
       /\ params.values[ph] = Str(SubSeq(s, 2, Len(s)))
       /\ params.hasValues
       /\ params.names = last.pre.names /\ params.hasNames = last.pre.hasNames
       /\ \A i \in DOMAIN last.log : last.log[i].t = "value"
       /\ s = <<":", ":", "b">> => params.values[ph] = Str(<<":", "b">>)
       /\ s = <<":", "#", "b">> => params.values[ph] = Str(<<"#", "b">>)
       /\ s = <<":", "t", "h", "e", "_", "v", "a", "l", "u", "e">> =>
            params.values[ph] = Str(<<"t", "h", "e", "_", "v", "a", "l", "u", "e">>)

\* ':#b' was resolved where a name was expected and bound the literal '#b'
C11_Witness ==
  /\ ColonOperand
  /\ OperandText = <<":", "#", "b">>
  /\ last.input.defaultType = "name"
  /\ params.values[last.ret.str] = Str(<<"#", "b">>)

\* the last call resolved a '#' reference whose text after the '#' starts with
\* '#' or ':'
HashHashOperand ==
  /\ last.call = "addOperand"
  /\ Len(OperandText) > 1
  /\ OperandText[1] = "#"
  /\ OperandText[2] \in {"#", ":"}

\* the last call took the embedded-reference branch: a string operand that
\* contains '#' and does not start with ':'
EmbeddedReference ==
  /\ last.call = "addOperand"
  /\ Includes(OperandText, "#")
  /\ OperandText[1] # ":"

\* sequence s occurs in sequence r
OccursIn(s, r) ==
  \E i \in 1..(Len(r) - Len(s) + 1) : SubSeq(r, i, i + Len(s) - 1) = s

\* C27: whenever operand resolution takes the embedded-reference branch it
\* binds exactly one name in the name table and the returned fragment
\* contains that name's placeholder; the operand text is never returned
\* verbatim with no binding made, also when the '#' is the last character or
\* is directly followed by ')'.
C27_ReferenceAlwaysBinds ==
  EmbeddedReference =>
    /\ Len(last.log) = 1
    /\ last.log[1].t = "name"
    /\ last.log[1].ph \in DOMAIN params.names
    /\ OccursIn(last.log[1].ph, last.ret.str)

\* C20: a '#'-referenced operand whose text after the first '#' itself starts
\* with '#' or ':' names an attribute with that literal text: only the one
\* leading '#' is stripped, so '##foo' binds a name whose raw key is '#foo'
\* and '#:b' one whose raw key is ':b', and no value-table entry is added.
C20_OnlyFirstHashStripped ==
  HashHashOperand =>
    LET ph == last.ret.str
    IN /\ ph \in DOMAIN params.names
       /\ params.names[ph] = Str(Tail(OperandText))
       /\ params.values = last.pre.values /\ params.hasValues = last.pre.hasValues
       /\ OperandText = <<"#", "#", "f", "o", "o">> =>
            params.names[ph] = Str(<<"#", "f", "o", "o">>)
       /\ OperandText = <<"#", ":", "b">> => params.names[ph] = Str(<<":", "b">>)

\* '##foo' was resolved where a value was expected and bound the name '#foo'
C20_Witness ==
  /\ HashHashOperand
  /\ OperandText = <<"#", "#", "f", "o", "o">>
  /\ last.input.defaultType = "value"
  /\ \E ph \in DOMAIN params.names : params.names[ph] = Str(<<"#", "f", "o", "o">>)

(***************************************************************************)
(* Claims about local evaluation (SpecEvaluate)                             *)
(***************************************************************************)
RECURSIVE Satisfying(_)
\* the integers of the domain that satisfy the operator condition c renders
Satisfying(c) ==
  CASE c.cond = "cmp" ->
         LET x == c.value.num
         IN (CASE c.operator = <<"=">> -> {n \in EvalInts : n = x}
               [] c.operator = <<"<", ">">> -> {n \in EvalInts : n # x}
               [] c.operator = <<"<">> -> {n \in EvalInts : n < x}
               [] c.operator = <<"<", "=">> -> {n \in EvalInts : n <= x}
               [] c.operator = <<">">> -> {n \in EvalInts : n > x}
               [] c.operator = <<">", "=">> -> {n \in EvalInts : n >= x})
    [] c.cond = "between" -> c.operands[1].num..c.operands[2].num
    [] c.cond = "in" -> {c.operands[i].num : i \in DOMAIN c.operands}
    [] c.cond = "func" -> IF c = AttributeExists THEN EvalInts ELSE {}
    [] c.cond = "not" -> EvalInts \ Satisfying(c.operand)
    [] c.cond = "and" ->
         {n \in EvalInts : \A i \in DOMAIN c.operands : n \in Satisfying(c.operands[i])}
    [] c.cond = "or" -> UNION {Satisfying(c.operands[i]) : i \in DOMAIN c.operands}

\* C16: local evaluation mirrors the operator each condition renders: over a
\* bounded integer domain, eq/neq/lt/le/gt/ge(x).evaluate(v) is v =, <>, <,
\* <=, >, >= x, between(lo, hi).evaluate(v) is lo <= v <= hi,
\* in(list).evaluate(v) is membership, not(c) negates, and(...) / or(...) are
\* the conjunction / disjunction of their operands' evaluations.
C16_EvaluateMirrorsOperator ==
  last.call = "evaluate" =>
    (last.ret.bool <=> last.input.v.num \in Satisfying(last.input.c))

\* ge(2).evaluate(2) was true
C16_Witness ==
  /\ last.call = "evaluate"
  /\ last.input.c = Ge(Num(2))
  /\ last.input.v = Num(2)
  /\ last.ret.bool

(***************************************************************************)
(* Claims about conditions on one attribute (SpecAttr)                      *)
(***************************************************************************)
\* the renderings of {key: c} alone from the tables the last call started with
PlainRenderings ==
  ConditionSetBuild(Flat(<<Entry(last.input.key, last.input.c)>>),
                    NewBuilder(last.pre, "cond"))

\* the default value of the last call is defined and satisfies the condition
DefaultMatches ==
  /\ ~IsUndefined(last.input.d)
  /\ last.input.d.num \in Satisfying(last.input.c)

\* C15: c.withDefaultValue(d): if d is not undefined and c.evaluate(d) is
\* true, the result renders for the attribute as
\* '(<c rendered> OR attribute_not_exists(<placeholder of the attribute>))';
\* in every other case the very same condition c is returned and renders
\* unchanged.
C15_WithDefaultValue ==
  last.call = "withDefaultValue" =>
    IF DefaultMatches
    THEN \E r \in PlainRenderings, n \in DOMAIN params.names :
           /\ params.names[n] = Str(last.input.key)
           /\ last.ret = Str(<<"(">> \o r.ret.str \o <<" ", "O", "R", " ">>
                             \o AttributeNotExists.func \o <<"(">> \o n \o <<")", ")">>)
           /\ r.b.values = params.values
    ELSE /\ last.input.result = last.input.c
         /\ \E r \in PlainRenderings :
              /\ r.ret = last.ret
              /\ r.b.names = params.names /\ r.b.values = params.values

\* in([1, 2, 3]).withDefaultValue(1) was rendered with the OR wrapped around it
C15_Witness ==
  /\ last.call = "withDefaultValue"
  /\ last.input.c = In(<<Num(1), Num(2), Num(3)>>)
  /\ last.input.d = Num(1)
  /\ last.input.result.cond = "or"
  /\ IsString(last.ret) /\ last.ret.str[1] = "("

\* C22: round trip: for a condition c built from the public factory
\* functions, Condition.from(JSON.parse(JSON.stringify(c))) renders the same
\* expression string and produces the same name and value tables as c.
C22_JsonRoundTrip ==
  last.call = "roundTrip" =>
    \E r \in PlainRenderings :
      /\ r.ret = last.ret
      /\ r.b.names = params.names
      /\ r.b.values = params.values

\* the last call rendered Condition.and(...) / Condition.or(...) itself
AndOrRendered ==
  /\ last.call = "withDefaultValue"
  /\ last.input.c.cond \in {"and", "or"}
  /\ last.input.result = last.input.c

\* what operand o has to look like with name placeholder n and value
\* placeholder p
OperandClause(o, n, p) ==
  IF o.cond = "cmp" THEN n \o <<" ">> \o o.operator \o <<" ">> \o p
  ELSE o.func \o <<"(">> \o n \o <<")">>

\* C17: Condition.and(...) / Condition.or(...) on attribute path p render
\* '(<c0> OP <c1> OP ...)' in operand order, every operand against p: all
\* operands use one and the same name placeholder bound to p, and each
\* literal has a value placeholder bound to it.
C17_SameAttributeOperands ==
  AndOrRendered =>
    LET ops == last.input.c.operands
        word == IF last.input.c.cond = "and" THEN <<" ", "A", "N", "D", " ">>
                ELSE <<" ", "O", "R", " ">>
    IN \E n \in DOMAIN params.names :
         /\ params.names[n] = Str(last.input.key)
         /\ \E ps \in [DOMAIN ops -> DOMAIN params.values \cup {<<>>}] :
              /\ \A i \in DOMAIN ops :
                   ops[i].cond = "cmp" =>
                     /\ ps[i] \in DOMAIN params.values
                     /\ params.values[ps[i]] = ops[i].value
              /\ last.ret = Str(<<"(">>
                                \o Join([i \in DOMAIN ops |-> OperandClause(ops[i], n, ps[i])],
                                        word)
                                \o <<")">>)

(***************************************************************************)
(* Claims about the params object the Params builders return (Spec)         *)
(***************************************************************************)
ParamsCalls == {"buildConditionParams", "buildKeyConditionParams", "buildUpdateParams"}

ExpressionFields == {"ConditionExpression", "KeyConditionExpression", "UpdateExpression"}

\* the field a Params builder produces
ProducedField(call) ==
  CASE call = "buildConditionParams" -> "ConditionExpression"
    [] call = "buildKeyConditionParams" -> "KeyConditionExpression"
    [] call = "buildUpdateParams" -> "UpdateExpression"

\* the characters that end a placeholder in an expression
Delimiters == {" ", "(", ")", ",", ".", "#", ":", "=", "<", ">", "+", "-"}

\* the placeholder that starts at position i of expression text s
PlaceholderAt(s, i) ==
  LET ends == {j \in i..Len(s) :
                 /\ \A k \in (i + 1)..j : s[k] \notin Delimiters
                 /\ (j = Len(s) \/ s[j + 1] \in Delimiters)}
  IN SubSeq(s, i, CHOOSE j \in ends : TRUE)

\* the placeholders an expression text uses
PlaceholdersOf(s) ==
  {PlaceholderAt(s, i) : i \in {k \in DOMAIN s : s[k] \in {"#", ":"}}}

\* every placeholder expression e uses is bound in the tables of p
AllBound(e, p) ==
  \A ph \in PlaceholdersOf(e.str) :
    IF ph[1] = "#" THEN ph \in DOMAIN p.names ELSE ph \in DOMAIN p.values

C19_DeriveLeavesReceiver ==
  /\ last.call \in {"and", "or"} =>
       /\ last.ret = Ref(Len(objects))
       /\ Len(objects) = Len(last.input.before) + 1
       /\ objects[Len(objects)].operator = (IF last.call = "and" THEN "AND" ELSE "OR")
       /\ objects[Len(objects)].operands = <<Ref(last.input.receiver)>> \o last.input.operands
       /\ \A i \in DOMAIN last.input.before : objects[i] = last.input.before[i]
  /\ last.call = "render" => last.ret \in last.hist[last.input.receiver]

\* an instance with operands was rendered after an .and(...) with arguments
\* had been derived from it
C19_Witness ==
  /\ last.call = "render"
  /\ IsNonEmptyString(last.ret)
  /\ \E j \in DOMAIN objects :
       /\ Len(objects[j].operands) > 1
       /\ objects[j].operator = "AND"
       /\ objects[j].operands[1] = Ref(last.input.receiver)
       /\ j > last.input.receiver

(***************************************************************************)
(* Claims about the placeholders of a returned expression (SpecUpd)         *)
(***************************************************************************)
\* placeholder ph was bound by the last call, in table tbl, to what the call
\* supplied for it
BoundAsSupplied(ph, t, tbl) ==
  /\ ph \in DOMAIN tbl
  /\ \E i \in DOMAIN last.log :
       /\ last.log[i].t = t
       /\ last.log[i].ph = ph
       /\ tbl[ph] = last.log[i].raw

\* C23: binding soundness: every name placeholder and every value placeholder
\* that occurs in the returned expression string is, on return, a key of the
\* corresponding table, bound to the raw attribute key or the literal value
\* the input supplied for it.
C23_BindingSoundness ==
  (last.call \in UpdateCalls /\ IsString(last.ret)) =>
    \A ph \in PlaceholdersOf(last.ret.str) :
      IF ph[1] = "#" THEN BoundAsSupplied(ph, "name", params.names)
      ELSE BoundAsSupplied(ph, "value", params.values)

(***************************************************************************)
(* Claims about the retry loop (SpecRetry)                                  *)
(***************************************************************************)
\* C24: termination of the collision retry: on every table reachable by
\* binding literals one after another, for every value, the loop of
\* addUniqueMapping eventually returns a placeholder under a fair random
\* choice of the suffix, however many distinct literals share the
\* disambiguator.
C24_RetryTerminates == (last.call = "loop") ~> (last.call = "returned")

(***************************************************************************)
(* Claims about addName on paths (SpecPath)                                 *)
(***************************************************************************)
\* the key of a path segment: the text before its first '['
SegmentKey(seg) ==
  IF Includes(seg, "[") THEN SubSeq(seg, 1, IndexOf(seg, "[") - 1) ELSE seg

\* the index suffix of a path segment: the text from its first '[' on
SegmentIndex(seg) ==
  IF Includes(seg, "[") THEN SubSeq(seg, IndexOf(seg, "["), Len(seg)) ELSE <<>>

\* the returned string is one placeholder per segment, each bound to its
\* segment's key and followed by the segment's index suffix, joined by '.'
PlaceholderPerSegment ==
  LET segs == Split(last.input.str, ".")
  IN \E phs \in [DOMAIN segs -> DOMAIN params.names] :
       /\ \A i \in DOMAIN segs : params.names[phs[i]] = Str(SegmentKey(segs[i]))
       /\ last.ret = Str(Join([i \in DOMAIN segs |-> phs[i] \o SegmentIndex(segs[i])],
                              <<".">>))

\* the same path was bound by an earlier call
BoundBefore ==
  \E j \in 1..(Len(last.hist) - 1) : last.hist[j].path = last.input.str

\* C25: addName on a path of k dot-separated segments returns k placeholders
\* joined by '.', the i-th bound to the i-th segment's key, each segment's
\* index suffix appended verbatim after its placeholder and absent from the
\* table; binding the same path again returns the same string and adds no
\* entry.
C25_PathBinding ==
  last.call = "addName" =>
    /\ PlaceholderPerSegment
    /\ \A j \in 1..(Len(last.hist) - 1) :
         last.hist[j].path = last.input.str =>
           /\ last.ret = last.hist[j].ret
           /\ params.names = last.pre.names

\* C26: every key addName adds to the name table is '#' followed by text
\* containing none of '.', '[' and ']', for every path, also nested paths
\* whose non-final segments carry an index suffix such as 'a[1].b'.
C26_CleanNameKeys ==
  last.call = "addName" =>
    \A k \in DOMAIN params.names \ DOMAIN last.pre.names :
      /\ k[1] = "#"
      /\ \A i \in 2..Len(k) : k[i] \notin {".", "[", "]"}

(***************************************************************************)
(* Claims about the Params builders that throw (Spec)                       *)
(***************************************************************************)
\* C28: when buildConditionParams, buildKeyConditionParams or
\* buildUpdateParams throws because the input renders to no expression, the
\* caller's params object is exactly as it was: no expression field is added
\* and neither table is created or modified.
C28_ThrowLeavesParams ==
  (last.call \in ParamsCalls /\ last.thrown) => params = last.pre

\* buildConditionParams threw on a composite of empty operands, as the second
\* call on a params object that still has no value table
C28_Witness ==
  /\ calls = 2
  /\ last.call = "buildConditionParams" /\ last.thrown
  /\ IsComposite(last.input) /\ last.input.operands # <<>>
  /\ ~last.pre.hasValues
  /\ params = last.pre

(***************************************************************************)
(* Claims about what a rendered condition denotes (SpecLogic)               *)
(***************************************************************************)
\* an item: the numbers its attributes a, b and c hold
Items == [{kA, kB, kC} -> {0, 1, 2}]

\* the number of parentheses open before position i of s
DepthAt(s, i) ==
  Cardinality({k \in 1..(i - 1) : s[k] = "("})
    - Cardinality({k \in 1..(i - 1) : s[k] = ")"})

\* where sep stands in s outside every parenthesis
TopLevel(s, sep) ==
  {i \in 1..(Len(s) - Len(sep) + 1) :
     SubSeq(s, i, i + Len(sep) - 1) = sep /\ DepthAt(s, i) = 0}

RECURSIVE TopSplit(_, _)
\* s cut at every sep outside parentheses
TopSplit(s, sep) ==
  IF TopLevel(s, sep) = {} THEN <<s>>
  ELSE LET i == CHOOSE k \in TopLevel(s, sep) : \A m \in TopLevel(s, sep) : k <= m
       IN <<SubSeq(s, 1, i - 1)>> \o TopSplit(SubSeq(s, i + Len(sep), Len(s)), sep)

\* x op y on numbers
Compare(op, x, y) ==
  CASE op = <<"=">> -> x = y
    [] op = <<"<", ">">> -> x # y
    [] op = <<"<">> -> x < y
    [] op = <<"<", "=">> -> x <= y
    [] op = <<">">> -> x > y
    [] op = <<">", "=">> -> x >= y

RECURSIVE ParseText(_)
\* expression text s as a tree, OR split off before AND, AND before NOT,
\* parentheses as groups: NOT binds tighter than AND, AND tighter than OR
ParseText(s) ==
  LET ors == TopSplit(s, <<" ", "O", "R", " ">>)
      ands == TopSplit(s, <<" ", "A", "N", "D", " ">>)
  IN IF Len(ors) > 1
     THEN [node |-> "or", args |-> [i \in DOMAIN ors |-> ParseText(ors[i])]]
     ELSE IF Len(ands) > 1
     THEN [node |-> "and", args |-> [i \in DOMAIN ands |-> ParseText(ands[i])]]
     ELSE IF Len(s) > 4 /\ SubSeq(s, 1, 4) = <<"N", "O", "T", " ">>
     THEN [node |-> "not", args |-> <<ParseText(SubSeq(s, 5, Len(s)))>>]
     ELSE IF s[1] = "(" THEN ParseText(SubSeq(s, 2, Len(s) - 1))
     ELSE [node |-> "clause", args |-> Split(s, " ")]

RECURSIVE Denotes(_, _, _)
\* the truth of a parsed expression on an item, its clauses 'name op value'
\* read through the tables of p
Denotes(tree, item, p) ==
  CASE tree.node = "or" -> \E i \in DOMAIN tree.args : Denotes(tree.args[i], item, p)
    [] tree.node = "and" -> \A i \in DOMAIN tree.args : Denotes(tree.args[i], item, p)
    [] tree.node = "not" -> ~Denotes(tree.args[1], item, p)
    [] tree.node = "clause" ->
         Compare(tree.args[2], item[p.names[tree.args[1]].str],
                 p.values[tree.args[3]].num)

RECURSIVE Meaning(_, _)
\* the truth of a condition set on an item: a flat mapping is the conjunction
\* of its defined entries, a composite its operator over the operands that
\* render a clause
Meaning(c, item) ==
  IF IsComposite(c)
  THEN LET used == {i \in DOMAIN c.operands : ~RendersNothing(c.operands[i])}
       IN IF c.operator = "AND" THEN \A i \in used : Meaning(c.operands[i], item)
          ELSE \E i \in used : Meaning(c.operands[i], item)
  ELSE \A i \in DOMAIN c.flat :
         IsUndefined(c.flat[i].value)
           \/ item[c.flat[i].key] \in Satisfying(ConditionFrom(c.flat[i].value))

\* C29: the rendered condition string, read with the precedence NOT over AND
\* over OR and with its parentheses, denotes the same boolean combination as
\* the input tree, also where a multi-entry flat mapping nested in an OR
\* composite is rendered without parentheses of its own.
C29_SameBooleanCombination ==
  (last.call = "buildConditionExpression" /\ IsString(last.ret)) =>
    LET tree == ParseText(last.ret.str)
    IN \A item \in Items : Denotes(tree, item, params) <=> Meaning(last.input, item)

\* a two-entry flat mapping was rendered inside an OR composite without
\* parentheses of its own
C29_Witness ==
  /\ last.call = "buildConditionExpression" /\ IsString(last.ret)
  /\ IsComposite(last.input) /\ last.input.operator = "OR"
  /\ ~IsComposite(last.input.operands[1]) /\ Len(last.input.operands[1].flat) = 2
  /\ Len(TopSplit(last.ret.str, <<" ", "O", "R", " ">>)) = 1
  /\ Len(TopSplit(SubSeq(last.ret.str, 2, Len(last.ret.str) - 1), <<" ", "O", "R", " ">>)) = 2
  /\ Len(TopSplit(SubSeq(last.ret.str, 2, Len(last.ret.str) - 1),
                  <<" ", "A", "N", "D", " ">>)) = 2

(***************************************************************************)
(* Claims about undefined values (Spec)                                     *)
(***************************************************************************)
\* the keys of the entries of a flat mapping whose value is not undefined
DefinedKeys(entries) ==
  {Str(entries[i].key) : i \in {j \in DOMAIN entries : ~IsUndefined(entries[j].value)}}

\* the values the last call added to table field f
AddedTo(f) == {params[f][k] : k \in DOMAIN params[f] \ DOMAIN last.pre[f]}

\* C30: in a flat condition mapping an entry whose value is undefined
\* contributes no clause and adds no entry to either table, and a mapping whose
\* entries are all undefined renders as no expression; in an update mapping an
\* undefined value is not skipped but renders a SET clause bound to the value
\* undefined.
C30_UndefinedValues ==
  /\ (last.call \in ConditionCalls /\ ~IsComposite(last.input)) =>
       /\ AddedTo("names") \subseteq DefinedKeys(last.input.flat)
       /\ Undefined \notin AddedTo("values")
       /\ DefinedKeys(last.input.flat) = {} =>
            /\ IsUndefined(last.ret)
            /\ params.names = last.pre.names /\ params.values = last.pre.values
            /\ params.hasNames = last.pre.hasNames /\ params.hasValues = last.pre.hasValues
       /\ IsString(last.ret) =>
            Len(TopSplit(last.ret.str, <<" ", "A", "N", "D", " ">>))
              = Cardinality(DefinedKeys(last.input.flat))
  /\ (last.call \in UpdateCalls /\ last.input = <<Entry(kA, Undefined)>>) =>
       /\ ~last.thrown
       /\ \E n \in DOMAIN params.names, v \in DOMAIN params.values :
            /\ params.names[n] = Str(kA)
            /\ params.values[v] = Undefined
            /\ last.ret = Str(<<"S", "E", "T", " ">> \o n \o <<" ", "=", " ">> \o v)

\* {a: undefined, b: 1} was rendered as one clause on b after an update call
\* had bound undefined to a SET clause of a
C30_Witness ==
  /\ calls = 2
  /\ last.call \in ConditionCalls
  /\ last.input = Flat(<<Entry(kA, Undefined), Entry(kB, Num(1))>>)
  /\ IsString(last.ret)
  /\ Undefined \in {last.pre.values[k] : k \in DOMAIN last.pre.values}
  /\ IsString(last.pre.UpdateExpression)

====
